---- MODULE Spec2Model ----
(***************************************************************************)
(* Model of the "rechazos" follow-up workflow:                             *)
(*   data_processor.py   DataProcessor.validate_data / transform           *)
(*   database_manager.py DatabaseManager.update_rechazos and the two       *)
(*                       homologation derivers                             *)
(*   streamlit_app.py    main (the upload and the reading of the file)     *)
(*                                                                         *)
(* Text values are sequences of one-character strings, so that the quote   *)
(* escaping of the SQL text is computed, not assumed.  The relational      *)
(* store is modelled by its tables: RECHAZOS_SEGUIMIENTO is a function     *)
(* from RECHAZOID to a row, the two homologation tables are sequences of   *)
(* rows in insertion order (a table may hold two rows with one key).       *)
(***************************************************************************)
EXTENDS Integers, Sequences, FiniteSets, TLC

VARIABLES pc,       \* position of the workflow
          file,     \* the uploaded table: [cols, ids, hasData]
          vres,     \* result of validate_data: [valid, errors]
          store,    \* RECHAZOS_SEGUIMIENTO: RECHAZOID -> row
          faulty,   \* whether store operations of this session may raise
          prod,     \* PRO_SO_HOMOLOGACION: sequence of rows
          suc,      \* SUC_SO_HOMOLOGACION: sequence of rows
          total,    \* len(df) of the frame handed to update_rechazos
          df,       \* rows of that frame iterated so far, in order
          last,     \* the last iteration: its row, what raised, state before
          results,  \* summary of update_rechazos
          ids_in,   \* rechazos_ids handed to the running deriver
          sel,      \* rechazos_df of the running deriver
          k,        \* number of rows of sel iterated so far
          hres,     \* summary of insert_homologaciones_from_rechazos
          sres      \* summary of insert_homologaciones_sucursales_from_rechazos

vars == <<pc, file, vres, store, faulty, prod, suc, total, df, last, results,
          ids_in, sel, k, hres, sres>>

----------------------------------------------------------------------------
(* Values *)

\* SQL NULL / pandas NaN / Python None of a text cell
NULL == <<"NULL">>
\* SQL NULL / NaN of a numeric cell
NULLN == 0 - 1

\* the missing cell of a frame read from a file (float NaN)
NAN == <<"NaN">>

\* pd.notna on a text cell and on a numeric cell
notna(x) == x # NULL /\ x # NAN
notnan(n) == n # NULLN

Q == "'"

\* the texts of the program
GOBIERNO_DE_DATOS == <<"G", "o", "b">>
HOMOLOGACION_PRODUCTO == <<"H", "P">>
HOMOLOGACION_SUCURSAL == <<"H", "S">>
PRODUCTO_HOMOLOGADO == <<"P", "h">>
MOTIVO_PRODUCTO == "Producto no encontrado en tabla de homologacion"
MOTIVO_SUCURSAL == "Sucursal no encontrada en tabla de homologacion"
FECHA_VALIDO_HASTA == "2999-12-31 00:00:00"

\* str(x): a missing cell prints as the text None
str(x) == IF x = NULL THEN <<"N", "o", "n", "e">> ELSE x

\* s.replace("'", "''")
RECURSIVE replace(_)
replace(s) ==
    IF s = <<>> THEN <<>>
    ELSE IF Head(s) = Q THEN <<Q, Q>> \o replace(Tail(s))
    ELSE <<Head(s)>> \o replace(Tail(s))

\* f"'{s}'": the text of a SQL string literal as the program writes it
quote(s) == <<Q>> \o s \o <<Q>>

\* The store's reading of the inside of a string literal: a doubled quote is
\* one quote; a single quote inside ends the literal early (a syntax error).
RECURSIVE wellFormedBody(_)
wellFormedBody(b) ==
    IF b = <<>> THEN TRUE
    ELSE IF Head(b) # Q THEN wellFormedBody(Tail(b))
    ELSE Len(b) >= 2 /\ b[2] = Q /\ wellFormedBody(Tail(Tail(b)))

RECURSIVE unescape(_)
unescape(b) ==
    IF b = <<>> THEN <<>>
    ELSE IF Head(b) = Q THEN <<Q>> \o unescape(Tail(Tail(b)))
    ELSE <<Head(b)>> \o unescape(Tail(b))

literalOk(l) ==
    /\ Len(l) >= 2
    /\ l[1] = Q
    /\ l[Len(l)] = Q
    /\ wellFormedBody(SubSeq(l, 2, Len(l) - 1))

\* value of a well-formed literal
literalValue(l) == unescape(SubSeq(l, 2, Len(l) - 1))

Range(q) == {q[p] : p \in 1..Len(q)}
NoDup(q) == \A a, b \in 1..Len(q) : a # b => q[a] # q[b]

\* datetime.strftime('%Y-%m-%d %H:%M:%S'): the microseconds are dropped
strftime(d) == d[1]

----------------------------------------------------------------------------
(* DataProcessor.validate_data *)

\* A frame is [columns |-> names, data |-> one sequence of cells per column].

\* the names of the required columns: IDRechazo, Caso, Responsable de Caso,
\* Valor homologacion
IDRECHAZO == <<"I", "D", "r">>
CASO == <<"C", "a">>
RESPONSABLE_DE_CASO == <<"R", " ", "C">>
VALOR_HOMOLOGACION == <<"V", " ", "h">>
REQUIRED_COLUMNS == <<IDRECHAZO, CASO, RESPONSABLE_DE_CASO, VALOR_HOMOLOGACION>>

\* the number of duplicated ids the message lists
DUP_LISTED == 10

UPPER == <<"I", "D", "R", "C", "A", "V", "H", "X", "L", "S", "T", "U", "F">>
LOWER == <<"i", "d", "r", "c", "a", "v", "h", "x", "l", "s", "t", "u", "f">>

\* str.lower() and str.upper() on one character
lower_char(c) ==
    IF \E p \in 1..Len(UPPER) : UPPER[p] = c
    THEN LOWER[CHOOSE p \in 1..Len(UPPER) : UPPER[p] = c] ELSE c
upper_char(c) ==
    IF \E p \in 1..Len(LOWER) : LOWER[p] = c
    THEN UPPER[CHOOSE p \in 1..Len(LOWER) : LOWER[p] = c] ELSE c

\* str.lower()
lower(t) == [p \in 1..Len(t) |-> lower_char(t[p])]

\* str.strip()
RECURSIVE lstrip(_)
lstrip(t) == IF t # <<>> /\ Head(t) = " " THEN lstrip(Tail(t)) ELSE t
RECURSIVE rstrip(_)
rstrip(t) ==
    IF t # <<>> /\ t[Len(t)] = " " THEN rstrip(SubSeq(t, 1, Len(t) - 1)) ELSE t
strip(t) == rstrip(lstrip(t))

\* a normalisation of column names that does not fold the case
lower_strip_exact(t) == strip(t)

\* col.lower().strip()
lower_strip(t) == strip(lower(t))

\* the required columns no column of the frame matches
missing_columns(frame) ==
    SelectSeq(REQUIRED_COLUMNS,
              LAMBDA col : \A p \in 1..Len(frame.columns) :
                              lower_strip(frame.columns[p]) # lower_strip(col))

\* _find_column on the normalized frame: the position of the column, 0 for None
find_column(columns, column_name) ==
    IF \E p \in 1..Len(columns) : lower_strip(columns[p]) = lower_strip(column_name)
    THEN CHOOSE p \in 1..Len(columns) :
            /\ lower_strip(columns[p]) = lower_strip(column_name)
            /\ \A q \in 1..(p - 1) : lower_strip(columns[q]) # lower_strip(column_name)
    ELSE 0

\* Series.isnull().sum()
null_count(col) == Cardinality({p \in 1..Len(col) : ~notna(col[p])})

\* Series.dropna()
dropna(col) == SelectSeq(col, LAMBDA c : notna(c))

\* Series.duplicated().sum(): the cells equal to an earlier cell
duplicated_count(col) ==
    Cardinality({p \in 1..Len(col) : \E q \in 1..(p - 1) : col[q] = col[p]})

\* Series[Series.duplicated(keep=False)].unique(): the values that occur more
\* than once, in the order of their first cell; missing cells are equal to
\* each other
RECURSIVE unique(_)
unique(col) ==
    IF col = <<>> THEN <<>>
    ELSE LET init == unique(SubSeq(col, 1, Len(col) - 1))
             c == col[Len(col)]
         IN IF c \in Range(init) THEN init ELSE Append(init, c)

duplicate_values(col) ==
    unique(SelectSeq(col, LAMBDA c :
                Cardinality({p \in 1..Len(col) : col[p] = c}) > 1))

\* pd.to_numeric(..., errors='raise') accepts the cell: a text of digits
DIGITS == <<"0", "1", "2", "3", "4", "5", "6", "7", "8", "9">>
numeric(c) == c # <<>> /\ \A p \in 1..Len(c) : c[p] \in Range(DIGITS)

\* Series.isnull().all()
all_null(col) == \A p \in 1..Len(col) : ~notna(col[p])

\* the checks on the id column, in the order of the code
id_errors(ids) ==
    LET nulls == IF null_count(ids) > 0
                 THEN <<[kind |-> "null_ids", count |-> null_count(ids)]>> ELSE <<>>
        values == duplicate_values(ids)
        dups == IF duplicated_count(dropna(ids)) > 0
                THEN <<[kind |-> "duplicates",
                        count |-> duplicated_count(dropna(ids)),
                        listed |-> SubSeq(values, 1, IF Len(values) < DUP_LISTED
                                                     THEN Len(values) ELSE DUP_LISTED),
                        ellipsis |-> Len(values) > DUP_LISTED]>>
                ELSE <<>>
        nonnum == IF \E p \in 1..Len(dropna(ids)) : ~numeric(dropna(ids)[p])
                  THEN <<[kind |-> "not_numeric"]>> ELSE <<>>
    IN nulls \o dups \o nonnum

\* the check that some update column holds a value
update_errors(frame, columns) ==
    LET caso_col == find_column(columns, lower(CASO))
        resp_col == find_column(columns, lower(RESPONSABLE_DE_CASO))
        valor_col == find_column(columns, lower(VALOR_HOMOLOGACION))
        has_update_data ==
            \/ caso_col # 0 /\ ~all_null(frame.data[caso_col])
            \/ resp_col # 0 /\ ~all_null(frame.data[resp_col])
            \/ valor_col # 0 /\ ~all_null(frame.data[valor_col])
    IN IF has_update_data THEN <<>> ELSE <<[kind |-> "no_data"]>>

\* validate_data: (valid, errors)
validate_data(frame) ==
    IF missing_columns(frame) # <<>>
    THEN [valid |-> FALSE,
          errors |-> <<[kind |-> "missing", columns |-> missing_columns(frame)]>>]
    ELSE LET columns == [p \in 1..Len(frame.columns) |-> lower_strip(frame.columns[p])]
             id_col == find_column(columns, lower(IDRECHAZO))
             errors == (IF id_col # 0 THEN id_errors(frame.data[id_col]) ELSE <<>>)
                       \o update_errors(frame, columns)
         IN [valid |-> Len(errors) = 0, errors |-> errors]

----------------------------------------------------------------------------
(* DataProcessor.transform_for_database *)

\* the names of the columns in the store: RECHAZOID, CASO, RESPONSABLE_DE_CASO,
\* VALOR_HOMOLOGACION, UPDATE_AT, FECHA_SOLUCION_RECHAZO.  As in the source,
\* only the store name of Caso is the file's name in capitals.
DB_RECHAZOID == <<"R", "I", "D">>
DB_CASO == <<"C", "A">>
DB_RESPONSABLE_DE_CASO == <<"R", "_", "C">>
DB_VALOR_HOMOLOGACION == <<"V", "_", "H">>
DB_UPDATE_AT == <<"U", "_", "A">>
DB_FECHA_SOLUCION_RECHAZO == <<"F", "_", "S">>

\* COLUMN_MAPPING.items(): (name in the file, name in the store)
COLUMN_MAPPING ==
    << <<IDRECHAZO, DB_RECHAZOID>>, <<CASO, DB_CASO>>,
       <<RESPONSABLE_DE_CASO, DB_RESPONSABLE_DE_CASO>>,
       <<VALOR_HOMOLOGACION, DB_VALOR_HOMOLOGACION>> >>

string_columns == <<DB_CASO, DB_RESPONSABLE_DE_CASO, DB_VALOR_HOMOLOGACION>>

available_columns ==
    <<DB_RECHAZOID, DB_CASO, DB_RESPONSABLE_DE_CASO, DB_VALOR_HOMOLOGACION,
      DB_UPDATE_AT, DB_FECHA_SOLUCION_RECHAZO>>

\* is the column in the frame / its position / its cells
in_columns(frame, name) == \E p \in 1..Len(frame.columns) : frame.columns[p] = name
position(frame, name) ==
    CHOOSE p \in 1..Len(frame.columns) :
        frame.columns[p] = name /\ \A q \in 1..(p - 1) : frame.columns[q] # name
column(frame, name) == frame.data[position(frame, name)]

\* len(df)
len(frame) == IF frame.data = <<>> THEN 0 ELSE Len(frame.data[1])

\* the first column of the frame that matches the file name of the entry
first_match(columns, excel_col) ==
    IF \E p \in 1..Len(columns) : lower_strip(columns[p]) = lower_strip(excel_col)
    THEN CHOOSE p \in 1..Len(columns) :
            /\ lower_strip(columns[p]) = lower_strip(excel_col)
            /\ \A q \in 1..(p - 1) : lower_strip(columns[q]) # lower_strip(excel_col)
    ELSE 0

\* df.rename(columns=column_mapping)
rename(columns) ==
    [p \in 1..Len(columns) |->
        IF \E e \in 1..Len(COLUMN_MAPPING) : first_match(columns, COLUMN_MAPPING[e][1]) = p
        THEN COLUMN_MAPPING[CHOOSE e \in 1..Len(COLUMN_MAPPING) :
                               first_match(columns, COLUMN_MAPPING[e][1]) = p][2]
        ELSE columns[p]]

\* df[name] = cells: the column is replaced, or added as the last one
assign(frame, name, cells) ==
    IF in_columns(frame, name)
    THEN [frame EXCEPT !.data = [@ EXCEPT ![position(frame, name)] = cells]]
    ELSE [frame EXCEPT !.columns = Append(@, name), !.data = Append(@, cells)]

\* the number a text of digits stands for
RECURSIVE to_int(_)
to_int(t) ==
    IF t = <<>> THEN 0
    ELSE to_int(SubSeq(t, 1, Len(t) - 1)) * 10
         + (CHOOSE d \in 0..9 : DIGITS[d + 1] = t[Len(t)])

\* pd.to_numeric(cell, errors='coerce') on a cell of the file: the number,
\* NaN for a missing cell and for a text that is no number
to_numeric(c) == IF notna(c) /\ numeric(c) THEN to_int(c) ELSE NULLN

\* Series.astype(str): NaN becomes the text nan, None the text None
astype_str(c) ==
    IF c = NAN THEN <<"n", "a", "n">>
    ELSE IF c = NULL THEN <<"N", "o", "n", "e">>
    ELSE c

\* Series.replace('nan', None): a cell that is the text nan becomes None
replace_nan(c) == IF c = <<"n", "a", "n">> THEN NULL ELSE c

\* the normalisation of a cell of a string column
string_cell(c) == replace_nan(strip(astype_str(c)))

\* a dropna without subset: a row with any missing cell is dropped
dropna_any(frame, name) ==
    LET keep == {p \in 1..len(frame) :
                    /\ column(frame, name)[p] # NULLN
                    /\ \A c \in 1..Len(frame.columns) :
                          frame.columns[c] # name => notna(frame.data[c][p])}
        sub(col) == LET F[n \in 0..Len(col)] ==
                            IF n = 0 THEN <<>>
                            ELSE IF n \in keep THEN Append(F[n - 1], col[n])
                            ELSE F[n - 1]
                    IN F[Len(col)]
    IN [frame EXCEPT !.data = [c \in 1..Len(frame.data) |-> sub(frame.data[c])]]

\* df.dropna(subset=[name]) for the numeric column name: the rows whose cell
\* is NaN are dropped, the others keep their order
dropna_subset(frame, name) ==
    LET keep == {p \in 1..len(frame) : column(frame, name)[p] # NULLN}
        sub(col) == LET F[n \in 0..Len(col)] ==
                            IF n = 0 THEN <<>>
                            ELSE IF n \in keep THEN Append(F[n - 1], col[n])
                            ELSE F[n - 1]
                    IN F[Len(col)]
    IN [frame EXCEPT !.data = [c \in 1..Len(frame.data) |-> sub(frame.data[c])]]

\* transform_for_database; now holds the two values of datetime.now().  A
\* frame that this function returned has a numeric id column (field numeric),
\* which pd.to_numeric leaves as it is.
transform_for_database(frame, now) ==
    LET n == len(frame)
        f1 == [columns |-> rename(frame.columns), data |-> frame.data]
        f2 == assign(f1, DB_UPDATE_AT, [p \in 1..n |-> now.update_at])
        f3 == assign(f2, DB_FECHA_SOLUCION_RECHAZO, [p \in 1..n |-> now.fecha])
        f4 == IF in_columns(f3, DB_RECHAZOID) /\ "numeric" \notin DOMAIN frame
              THEN assign(f3, DB_RECHAZOID,
                          [p \in 1..n |-> to_numeric(column(f3, DB_RECHAZOID)[p])])
              ELSE f3
        strings(f, name) ==
            IF in_columns(f, name)
            THEN assign(f, name, [p \in 1..n |-> string_cell(column(f, name)[p])])
            ELSE f
        f5 == strings(strings(strings(f4, string_columns[1]), string_columns[2]),
                      string_columns[3])
        kept == SelectSeq(available_columns, LAMBDA name : in_columns(f5, name))
        f6 == [columns |-> kept,
               data |-> [p \in 1..Len(kept) |-> column(f5, kept[p])]]
        f7 == dropna_subset(f6, DB_RECHAZOID)
    IN [columns |-> f7.columns, data |-> f7.data, numeric |-> TRUE]

----------------------------------------------------------------------------
(* DatabaseManager.update_rechazos *)

\* GRPIDs of CF_CLIENTES_SO with COMPARTE_EAN = TRUE
COMPARTE_EAN == {1}

\* execution of "UPDATE t SET asg WHERE RECHAZOID IN who": the rows of who
\* take the assigned columns, every other column and row is kept
sql_update(st, who, asg) ==
    [j \in DOMAIN st |->
        IF j \in who
        THEN [c \in DOMAIN st[j] |-> IF c \in DOMAIN asg THEN asg[c] ELSE st[j][c]]
        ELSE st[j]]

\* an INSERT OVERWRITE: the table is emptied before the row is added
sql_insert_overwrite(tbl, row) == <<row>>

\* execution of "INSERT INTO t (...) VALUES (...)": the table gains the row
sql_insert(tbl, row) == Append(tbl, row)

\* value the store holds after SET col = '<escaped text>'
sql_text(v) == literalValue(quote(replace(str(v))))

has(row, c) == c \in DOMAIN row /\ notna(row[c])

\* set_clauses without the pd.notna tests: every column is always written
set_clauses_all(row) ==
    ("UPDATE_AT" :> strftime(row.UPDATE_AT))
    @@ ("FECHA_SOLUCION_RECHAZO" :> strftime(row.FECHA_SOLUCION_RECHAZO))
    @@ ("CASO" :> sql_text(row.CASO))
    @@ ("RESPONSABLE_DE_CASO" :> sql_text(row.RESPONSABLE_DE_CASO))
    @@ ("VALOR_HOMOLOGACION" :> sql_text(row.VALOR_HOMOLOGACION))

\* the SET list of the primary UPDATE
set_clauses(row) ==
    LET base == ("UPDATE_AT" :> strftime(row.UPDATE_AT))
                @@ ("FECHA_SOLUCION_RECHAZO" :> strftime(row.FECHA_SOLUCION_RECHAZO))
        caso == IF has(row, "CASO")
                THEN ("CASO" :> sql_text(row.CASO)) ELSE <<>>
        resp == IF has(row, "RESPONSABLE_DE_CASO")
                THEN ("RESPONSABLE_DE_CASO" :> sql_text(row.RESPONSABLE_DE_CASO))
                ELSE <<>>
        valor == IF has(row, "VALOR_HOMOLOGACION")
                 THEN ("VALOR_HOMOLOGACION" :> sql_text(row.VALOR_HOMOLOGACION))
                 ELSE <<>>
    IN base @@ caso @@ resp @@ valor

\* set_compartido that forgets the resolution date
set_compartido_short(row) ==
    ("VALOR_HOMOLOGACION" :> sql_text(row.VALOR_HOMOLOGACION))
    @@ ("UPDATE_AT" :> strftime(row.UPDATE_AT))

\* set_compartido that hands the whole SET list of the row to the siblings
set_compartido_all(row) == set_clauses(row)

\* the SET list of the shared-EAN UPDATE
set_compartido(row) ==
    ("VALOR_HOMOLOGACION" :> sql_text(row.VALOR_HOMOLOGACION))
    @@ ("UPDATE_AT" :> strftime(row.UPDATE_AT))
    @@ ("FECHA_SOLUCION_RECHAZO" :> strftime(row.FECHA_SOLUCION_RECHAZO))

\* rows matched by the WHERE of the shared-EAN UPDATE and of the id query;
\* a comparison with NULL matches nothing
where_compartido(st, rechazoid, paisid, codigo_barras) ==
    {j \in DOMAIN st :
        /\ j # rechazoid
        /\ st[j].PAISID # NULLN /\ st[j].PAISID = paisid
        /\ st[j].CODIGO_BARRAS # NULL
        /\ st[j].CODIGO_BARRAS = literalValue(quote(codigo_barras))
        /\ st[j].CAMPO_RECHAZADO = "PROPSTID"
        /\ st[j].GRPID # NULLN /\ st[j].GRPID \in COMPARTE_EAN}

\* results['updated'] += 1; results['updated_ids'].append(rechazoid)
add_updated(res, rechazoid) ==
    [res EXCEPT !.updated = @ + 1, !.updated_ids = Append(@, rechazoid)]

\* the loop over ids_compartidos_df: an id is appended unless already listed
RECURSIVE add_compartidos(_, _)
add_compartidos(res, ids) ==
    IF ids = <<>> THEN res
    ELSE LET id == Head(ids)
             r1 == IF \A p \in 1..Len(res.updated_ids) : res.updated_ids[p] # id
                   THEN [res EXCEPT !.updated_ids = Append(@, id),
                                    !.updated = @ + 1]
                   ELSE res
         IN add_compartidos(r1, Tail(ids))

\* except Exception: the row is counted as failed and one error is recorded
\* (1-based row number, id of the row, the operation that raised)
except_row(res, idx, row, what) ==
    [res EXCEPT !.failed = @ + 1,
                !.errors = Append(@, [row |-> idx + 1, id |-> row.RECHAZOID,
                                      what |-> what])]

\* Does the body of the loop reach the store operation `op` for this row?
reaches(st, row, op) ==
    LET id == row.RECHAZOID
        shared == /\ has(row, "VALOR_HOMOLOGACION")
                  /\ id \in DOMAIN st
                  /\ st[id].CAMPO_RECHAZADO = "PROPSTID"
    IN CASE op = "none" -> TRUE
         [] op = "primary" -> TRUE
         [] op = "info" -> has(row, "VALOR_HOMOLOGACION")
         [] op = "propagate" -> shared
         [] op = "ids" -> shared /\ st[id].PAISID # NULLN

\* One iteration of "for idx, row in df.iterrows()".  fail names the store
\* operation that raises (none: the store raises nothing by itself); ord is
\* the order in which the id query returns its rows.
update_row(st, res, idx, row, fail, ord) ==
    LET rechazoid == row.RECHAZOID
        st1 == sql_update(st, {rechazoid} \cap DOMAIN st, set_clauses(row))
        res1 == add_updated(res, rechazoid)
        paisid == st1[rechazoid].PAISID
        codigo_barras == replace(str(st1[rechazoid].CODIGO_BARRAS))
        who == where_compartido(st1, rechazoid, paisid, codigo_barras)
        st2 == sql_update(st1, who, set_compartido(row))
        found == where_compartido(st2, rechazoid, paisid, codigo_barras)
        ids == SelectSeq(ord, LAMBDA j : j \in found)
    IN IF fail = "primary"
       THEN [store |-> st, results |-> except_row(res, idx, row, "primary")]
       ELSE IF ~has(row, "VALOR_HOMOLOGACION")
       THEN [store |-> st1, results |-> res1]
       ELSE IF fail = "info"
       THEN [store |-> st1, results |-> except_row(res1, idx, row, "info")]
       ELSE IF ~(rechazoid \in DOMAIN st1
                 /\ st1[rechazoid].CAMPO_RECHAZADO = "PROPSTID")
       THEN [store |-> st1, results |-> res1]
       \* PAISID = None is no SQL: the shared-EAN UPDATE raises
       ELSE IF fail = "propagate" \/ paisid = NULLN
       THEN [store |-> st1, results |-> except_row(res1, idx, row, "propagate")]
       ELSE IF fail = "ids"
       THEN [store |-> st2, results |-> except_row(res1, idx, row, "ids")]
       ELSE [store |-> st2, results |-> add_compartidos(res1, ids)]

\* a loop that stops at the first failed row
more_rows_break(res, n, i) == i < n /\ res.failed = 0

\* for idx, row in df.iterrows(): is there a next row?
more_rows(res, n, i) == i < n

\* the orders in which a query without ORDER BY may return the rows of S
orders(S) ==
    {o \in [1..Cardinality(S) -> S] :
        \A a, b \in 1..Cardinality(S) : a # b => o[a] # o[b]}

----------------------------------------------------------------------------
(* Inputs of the update engine *)

MaxRows == 2

OLD_CASO == <<"o", "c">>
OLD_RESP == <<"o", "r">>
OLD_VALOR == <<"o", "v">>
CASO_Q == <<"c", Q>>
RESP_Q == <<"r", Q, Q>>
VALOR_1 == <<"P", "9">>
VALOR_Q == <<"P", Q>>
BARRAS_1 == <<"7", "5">>
BARRAS_Q == <<"7", Q>>

\* a row of RECHAZOS_SEGUIMIENTO
Rechazo(campo, paisid, barras, grpid, resp, modulo, motivo, caso, valor, rechazado, semanas) ==
    [CAMPO_RECHAZADO |-> campo, PAISID |-> paisid, CODIGO_BARRAS |-> barras,
     GRPID |-> grpid, RESPONSABLE_DE_CASO |-> resp, MODULO |-> modulo,
     MOTIVO_RECHAZO |-> motivo, CASO |-> caso, VALOR_HOMOLOGACION |-> valor,
     VALOR_RECHAZADO |-> rechazado, SEMANAS |-> semanas,
     UPDATE_AT |-> 0, FECHA_SOLUCION_RECHAZO |-> 0]

\* the rows the update engine is run on: field rejected, country, barcode, group
UpdShape(campo, paisid, barras, grpid) ==
    Rechazo(campo, paisid, barras, grpid, OLD_RESP, "Sellout", MOTIVO_PRODUCTO,
            OLD_CASO, OLD_VALOR, <<"x">>, NULLN)

UpdShapes ==
    { UpdShape("PROPSTID", 1, BARRAS_1, 1),
      UpdShape("PROPSTID", 1, BARRAS_1, 2),
      UpdShape("PROPSTID", 1, BARRAS_Q, 1),
      UpdShape("PROPSTID", 2, NULL, 1),
      UpdShape("PROPSTID", NULLN, BARRAS_1, 1),
      UpdShape("SUCID", 1, BARRAS_1, 1) }

\* stores of two or three rows; RECHAZOID 3 may be missing from the table
UpdStores ==
    [{1, 2} -> UpdShapes]
    \cup {s \in [{1, 2, 3} -> UpdShapes] :
            s[3] \in { UpdShape("PROPSTID", 1, BARRAS_1, 1),
                       UpdShape("PROPSTID", 1, BARRAS_Q, 1) }}

\* the stores on which store operations are also made to raise
FaultyStores ==
    [{1, 2, 3} -> { UpdShape("PROPSTID", 1, BARRAS_1, 1),
                    UpdShape("SUCID", 1, BARRAS_1, 1) }]
    \cup [{1, 2} -> { UpdShape("PROPSTID", 1, BARRAS_1, 1),
                      UpdShape("PROPSTID", NULLN, BARRAS_1, 1) }]

RowIds == {1, 2, 3}

\* the row of position i (0-based) of the frame: a datetime is <<seconds, microseconds>>
Row(i, id, caso, resp, valor) ==
    [RECHAZOID |-> id, CASO |-> caso, RESPONSABLE_DE_CASO |-> resp,
     VALOR_HOMOLOGACION |-> valor,
     UPDATE_AT |-> <<10 + i, 4>>, FECHA_SOLUCION_RECHAZO |-> <<20 + i, 6>>]

Rows(i) ==
    {Row(i, id, c[1], c[2], c[3]) :
        id \in RowIds,
        c \in { <<GOBIERNO_DE_DATOS, GOBIERNO_DE_DATOS, VALOR_1>>,
                <<NULL, NULL, VALOR_Q>>,
                <<CASO_Q, NULL, NULL>>,
                <<NULL, RESP_Q, NULL>> }}

Fails == {"none", "primary", "info", "propagate", "ids"}

results0 == [total |-> 0, updated |-> 0, failed |-> 0, errors |-> <<>>,
             updated_ids |-> <<>>]

NONE == [none |-> TRUE]

----------------------------------------------------------------------------
(* The update engine as a state machine *)

\* the rows the id query of this row returns, if the row gets there
candidates(st, row) ==
    IF row.RECHAZOID \in DOMAIN st
    THEN where_compartido(st, row.RECHAZOID, st[row.RECHAZOID].PAISID,
                          replace(str(st[row.RECHAZOID].CODIGO_BARRAS)))
    ELSE {}

\* results = {...}: the summary before the first row
InitUpd(stores, f) ==
    /\ total \in 0..MaxRows
    /\ pc = (IF more_rows(results0, total, 0) THEN "update" ELSE "updated")
    /\ store \in stores
    /\ faulty = f
    /\ df = <<>>
    /\ last = NONE
    /\ results = [results0 EXCEPT !.total = total]
    /\ file = NONE /\ vres = NONE
    /\ prod = <<>> /\ suc = <<>>
    /\ ids_in = <<>> /\ sel = <<>> /\ k = 0
    /\ hres = NONE /\ sres = NONE

\* one iteration of the loop of update_rechazos
UpdateRow ==
    /\ pc = "update"
    /\ more_rows(results, total, Len(df))
    /\ \E row \in Rows(Len(df)), fail \in Fails :
       \E ord \in orders(candidates(store, row)) :
          /\ fail # "none" => faulty
          /\ reaches(store, row, fail)
          /\ LET r == update_row(store, results, Len(df), row, fail, ord)
             IN /\ store' = r.store
                /\ results' = r.results
                /\ last' = [row |-> row, fail |-> fail, store |-> store,
                            results |-> results]
                /\ df' = Append(df, row)
                \* after the last row: return results
                /\ pc' = IF more_rows(r.results, total, Len(df) + 1)
                         THEN "update" ELSE "updated"
    /\ UNCHANGED <<file, vres, faulty, prod, suc, total, ids_in, sel, k, hres, sres>>

InitUpdate == InitUpd(UpdStores, FALSE)
InitUpdateFaulty == InitUpd(FaultyStores, TRUE)

NextUpdate == UpdateRow

SpecUpdate == InitUpdate /\ [][NextUpdate]_vars
SpecUpdateFaulty == InitUpdateFaulty /\ [][NextUpdate]_vars

----------------------------------------------------------------------------
(* DatabaseManager.insert_homologaciones_from_rechazos *)

\* results = {...} of a deriver
hresults0 == [total |-> 0, inserted |-> 0, duplicated |-> 0, failed |-> 0,
              errors |-> <<>>, duplicates |-> <<>>, inserted_details |-> <<>>]

\* datetime.now().strftime(...) of the derivers
FECHA_ACTUAL == "now"

\* VW_ESTRUCTURAPRODUCTOSTOTALPAISES: PROPSTID -> PROPSTNOMBRE
PROPSTNOMBRE == (<<"P", "9">> :> <<"n", Q>>)

\* CATSEMANAS: rows SEMANIO, SEMNUMERO, SEMINICIO
CATSEMANAS == {[SEMANIO |-> 2024, SEMNUMERO |-> 1, SEMINICIO |-> "2024-01-01 00:00:00"]}

\* a selection that does not ask for the module
where_producto_any_modulo(st, ids) ==
    {j \in DOMAIN st :
        /\ j \in Range(ids)
        /\ st[j].RESPONSABLE_DE_CASO = GOBIERNO_DE_DATOS
        /\ st[j].CAMPO_RECHAZADO = "PROPSTID"
        /\ st[j].MOTIVO_RECHAZO \in {MOTIVO_PRODUCTO}}

\* WHERE r.RECHAZOID IN (ids) AND ...: the records the product deriver selects
where_producto(st, ids) ==
    {j \in DOMAIN st :
        /\ j \in Range(ids)
        /\ st[j].RESPONSABLE_DE_CASO = GOBIERNO_DE_DATOS
        /\ st[j].MODULO = "Sellout"
        /\ st[j].CAMPO_RECHAZADO = "PROPSTID"
        /\ st[j].MOTIVO_RECHAZO \in {MOTIVO_PRODUCTO}}

\* the columns of query_rechazos for the record j
select_producto(st, j) ==
    [RECHAZOID |-> j, PAISID |-> st[j].PAISID, COD_PROD |-> st[j].VALOR_RECHAZADO,
     GRPID |-> st[j].GRPID, PROPSTID |-> st[j].VALOR_HOMOLOGACION,
     PROPSTCODBARRAS |-> st[j].CODIGO_BARRAS, SEMANAS |-> st[j].SEMANAS]

\* rechazos_df['DESCRIPCION_PRODUCTO']: the name of the product, or the
\* placeholder when the lookup raises (also on a PROPSTID whose quote breaks
\* the unescaped IN list) or finds nothing
descripciones(rows, fail) ==
    LET xs == {rows[p].PROPSTID : p \in 1..Len(rows)} \ {NULL}
        broken == fail \/ \E x \in xs : ~literalOk(quote(x))
        asked == {literalValue(quote(x)) : x \in {y \in xs : literalOk(quote(y))}}
        desc(x) == IF ~broken /\ x \in asked /\ x \in DOMAIN PROPSTNOMBRE
                   THEN PROPSTNOMBRE[x] ELSE PRODUCTO_HOMOLOGADO
    IN [p \in 1..Len(rows) |->
          [c \in DOMAIN rows[p] \cup {"DESCRIPCION_PRODUCTO"} |->
              IF c = "DESCRIPCION_PRODUCTO" THEN desc(rows[p].PROPSTID)
              ELSE rows[p][c]]]

\* str(x).replace("'", "''") if pd.notna(x) else d
escaped_or(x, d) == IF notna(x) THEN replace(str(x)) ELSE d

\* a check that compares the stored code with the escaped text
count_producto_raw(tbl, paisid, cod_prod, grpid) ==
    Cardinality({p \in 1..Len(tbl) :
                    /\ tbl[p].PAISID = paisid
                    /\ tbl[p].COD_PROD = cod_prod
                    /\ tbl[p].GRPID = grpid})

\* SELECT COUNT(*) FROM PRO_SO_HOMOLOGACION WHERE PAISID = .. AND COD_PROD = '..' AND GRPID = ..
count_producto(tbl, paisid, cod_prod, grpid) ==
    Cardinality({p \in 1..Len(tbl) :
                    /\ tbl[p].PAISID = paisid
                    /\ tbl[p].COD_PROD = literalValue(quote(cod_prod))
                    /\ tbl[p].GRPID = grpid})

\* a valid-from date that falls back to the current time
fecha_valido_desde_now(semanas, fail) ==
    IF ~notnan(semanas) \/ fail THEN FECHA_ACTUAL
    ELSE LET found == {w \in CATSEMANAS :
                          w.SEMANIO = semanas \div 100 /\ w.SEMNUMERO = semanas % 100}
         IN IF found = {} THEN FECHA_ACTUAL ELSE (CHOOSE w \in found : TRUE).SEMINICIO

\* FECHA_VALIDO_DESDE: the start of the week SEMANAS, None when SEMANAS is
\* missing, the calendar has no such week, or the lookup raises
fecha_valido_desde(semanas, fail) ==
    IF ~notnan(semanas) \/ fail THEN "NULL"
    ELSE LET semanio == semanas \div 100
             semnumero == semanas % 100
             found == {w \in CATSEMANAS :
                          w.SEMANIO = semanio /\ w.SEMNUMERO = semnumero}
         IN IF found = {} THEN "NULL" ELSE (CHOOSE w \in found : TRUE).SEMINICIO

\* an INSERT whose COD_PROD and PROPSTID values are swapped
insert_producto_swapped(row, cod_prod, propstid, barras, descripcion, desde) ==
    [PAISID |-> row.PAISID, COD_PROD |-> literalValue(quote(propstid)),
     DESCRIPCION_PRODUCTO |-> literalValue(quote(descripcion)),
     GRPID |-> row.GRPID, PROPSTID |-> literalValue(quote(cod_prod)),
     PROPSTCODBARRAS |-> IF barras # NULL THEN literalValue(quote(barras)) ELSE NULL,
     ACTIVO |-> TRUE, CREATE_AT |-> FECHA_ACTUAL, UPDATE_AT |-> FECHA_ACTUAL,
     FECHA_VALIDO_DESDE |-> desde, FECHA_VALIDO_HASTA |-> FECHA_VALIDO_HASTA]

\* the row of the INSERT INTO PRO_SO_HOMOLOGACION
insert_producto(row, cod_prod, propstid, barras, descripcion, desde) ==
    [PAISID |-> row.PAISID, COD_PROD |-> literalValue(quote(cod_prod)),
     DESCRIPCION_PRODUCTO |-> literalValue(quote(descripcion)),
     GRPID |-> row.GRPID, PROPSTID |-> literalValue(quote(propstid)),
     PROPSTCODBARRAS |-> IF barras # NULL THEN literalValue(quote(barras)) ELSE NULL,
     ACTIVO |-> TRUE, CREATE_AT |-> FECHA_ACTUAL, UPDATE_AT |-> FECHA_ACTUAL,
     FECHA_VALIDO_DESDE |-> desde, FECHA_VALIDO_HASTA |-> FECHA_VALIDO_HASTA]

\* the entry of duplicates / inserted_details
detalle_producto(row, cod_prod, propstid) ==
    [RECHAZOID |-> row.RECHAZOID, PAISID |-> row.PAISID, COD_PROD |-> cod_prod,
     GRPID |-> row.GRPID, PROPSTID |-> propstid]

\* a handler that swallows the exception of a record
except_deriver_silent(res, row, what) == res

\* except Exception inside the loop of a deriver
except_deriver(res, row, what) ==
    [res EXCEPT !.failed = @ + 1,
                !.errors = Append(@, [id |-> row.RECHAZOID, what |-> what])]

\* a duplicate that is listed but not counted
duplicado_uncounted(res, entry) == [res EXCEPT !.duplicates = Append(@, entry)]

\* the check found the key: the record is a duplicate and is not inserted
duplicado(res, entry) ==
    [res EXCEPT !.duplicated = @ + 1, !.duplicates = Append(@, entry)]

\* the INSERT was executed
insertado(res, entry) ==
    [res EXCEPT !.inserted = @ + 1, !.inserted_details = Append(@, entry)]

\* One iteration of the loop of the product deriver.  fail names the store
\* operation that raises.  A PAISID or GRPID that is missing is written into
\* the check as nan/None, which is no SQL: the check raises.
producto_row(tbl, res, row, fail) ==
    LET cod_prod == escaped_or(row.COD_PROD, <<>>)
        propstid == escaped_or(row.PROPSTID, <<>>)
        barras == escaped_or(row.PROPSTCODBARRAS, NULL)
        descripcion == escaped_or(row.DESCRIPCION_PRODUCTO, PRODUCTO_HOMOLOGADO)
        entry == detalle_producto(row, cod_prod, propstid)
        desde == fecha_valido_desde(row.SEMANAS, fail = "semanas")
    IN IF fail = "check" \/ ~notnan(row.PAISID) \/ ~notnan(row.GRPID)
       THEN [tbl |-> tbl, res |-> except_deriver(res, row, "check")]
       ELSE IF count_producto(tbl, row.PAISID, cod_prod, row.GRPID) > 0
       THEN [tbl |-> tbl, res |-> duplicado(res, entry)]
       ELSE IF fail = "insert"
       THEN [tbl |-> tbl, res |-> except_deriver(res, row, "insert")]
       ELSE [tbl |-> sql_insert(tbl, insert_producto(row, cod_prod, propstid, barras,
                                                      descripcion, desde)),
             res |-> insertado(res, entry)]

\* Does the iteration reach the store operation op for this row?
reaches_producto(tbl, row, op) ==
    LET checked == notnan(row.PAISID) /\ notnan(row.GRPID)
        fresh == checked /\ count_producto(tbl, row.PAISID,
                                escaped_or(row.COD_PROD, <<>>), row.GRPID) = 0
    IN CASE op = "none" -> TRUE
         [] op = "check" -> TRUE
         [] op = "semanas" -> fresh /\ notnan(row.SEMANAS)
         [] op = "insert" -> fresh

\* The part of the product deriver before its loop: the selection (which
\* may raise: "Error general"), total, and the descriptions.  ord is the
\* order in which the selection returns its rows.
producto_start(st, ids, fail, ord) ==
    IF ids = <<>> THEN [sel |-> <<>>, res |-> hresults0]
    ELSE IF fail = "select"
    THEN [sel |-> <<>>,
          res |-> [hresults0 EXCEPT !.errors = <<[general |-> "select"]>>]]
    ELSE LET rows == [p \in 1..Len(ord) |-> select_producto(st, ord[p])]
         IN [sel |-> IF rows = <<>> THEN <<>>
                     ELSE descripciones(rows, fail = "desc"),
             res |-> [hresults0 EXCEPT !.total = Len(rows)]]

----------------------------------------------------------------------------
(* DatabaseManager.insert_homologaciones_sucursales_from_rechazos *)

\* VW_ESTRUCTURASUCURSALES: rows SUCID, GRPID, CADID, SUCNOMBRE, DIRCALLE
VW_ESTRUCTURASUCURSALES ==
    { [SUCID |-> <<"S", "1">>, GRPID |-> 1, CADID |-> 7,
       SUCNOMBRE |-> <<"s">>, DIRCALLE |-> <<"d", Q>>],
      [SUCID |-> <<"S", "1">>, GRPID |-> 2, CADID |-> 7,
       SUCNOMBRE |-> <<"s">>, DIRCALLE |-> <<"d", Q>>],
      [SUCID |-> <<"S", Q>>, GRPID |-> 1, CADID |-> 8,
       SUCNOMBRE |-> NULL, DIRCALLE |-> NULL] }

\* WHERE r.RECHAZOID IN (ids) AND ...: the records the branch deriver selects
where_sucursal(st, ids) ==
    {j \in DOMAIN st :
        /\ j \in Range(ids)
        /\ st[j].RESPONSABLE_DE_CASO = GOBIERNO_DE_DATOS
        /\ st[j].MODULO = "Sellout"
        /\ st[j].CAMPO_RECHAZADO = "SUCID"
        /\ st[j].MOTIVO_RECHAZO = MOTIVO_SUCURSAL
        /\ st[j].CASO = HOMOLOGACION_SUCURSAL
        /\ st[j].VALOR_HOMOLOGACION # NULL}

\* the columns of query_rechazos for the record j
select_sucursal(st, j) ==
    [RECHAZOID |-> j, PAISID |-> st[j].PAISID, NUM_SUCURSAL |-> st[j].VALOR_RECHAZADO,
     SUCID |-> st[j].VALOR_HOMOLOGACION, SEMANAS |-> st[j].SEMANAS]

\* the rows suc_query matches (LIMIT 1 returns one of them)
sucursales(sucid) ==
    {m \in VW_ESTRUCTURASUCURSALES : m.SUCID = literalValue(quote(sucid))}

\* SELECT COUNT(*) FROM SUC_SO_HOMOLOGACION WHERE PAISID = .. AND NUM_SUCURSAL = '..' AND GRPID = ..
count_sucursal(tbl, paisid, num_sucursal, grpid) ==
    Cardinality({p \in 1..Len(tbl) :
                    /\ tbl[p].PAISID = paisid
                    /\ tbl[p].NUM_SUCURSAL = literalValue(quote(num_sucursal))
                    /\ tbl[p].GRPID = grpid})

\* '<text>' if text else NULL
text_or_null(t) == IF t # <<>> THEN literalValue(quote(t)) ELSE NULL

\* the row of the INSERT INTO SUC_SO_HOMOLOGACION
insert_sucursal(row, m, num_sucursal, sucid, desde) ==
    [PAISID |-> row.PAISID, GRPID |-> m.GRPID, CADID |-> m.CADID,
     NUM_SUCURSAL |-> literalValue(quote(num_sucursal)),
     DESCRIPCION |-> text_or_null(escaped_or(m.SUCNOMBRE, <<>>)),
     DIRECCION |-> text_or_null(escaped_or(m.DIRCALLE, <<>>)),
     SUCID |-> literalValue(quote(sucid)),
     ACTIVO |-> TRUE, CREATE_AT |-> FECHA_ACTUAL, UPDATE_AT |-> FECHA_ACTUAL,
     FECHA_VALIDO_DESDE |-> desde, FECHA_VALIDO_HASTA |-> FECHA_VALIDO_HASTA]

\* the entry of duplicates / inserted_details
detalle_sucursal(row, m, num_sucursal, sucid) ==
    [RECHAZOID |-> row.RECHAZOID, PAISID |-> row.PAISID,
     NUM_SUCURSAL |-> num_sucursal, GRPID |-> m.GRPID, SUCID |-> sucid]

\* a record whose SUCID is silently skipped when no branch is found
sin_sucursal_skip(res, row, sucid) == res

\* len(suc_df) == 0: the record fails, the error names RECHAZOID and SUCID
sin_sucursal(res, row, sucid) ==
    [res EXCEPT !.failed = @ + 1,
                !.errors = Append(@, [id |-> row.RECHAZOID, what |-> "no_sucursal",
                                      sucid |-> sucid])]

\* One iteration of the loop of the branch deriver.  fail names the store
\* operation that raises; m is the row LIMIT 1 returns when there is one.
sucursal_row(tbl, res, row, fail, m) ==
    LET num_sucursal == escaped_or(row.NUM_SUCURSAL, <<>>)
        sucid == escaped_or(row.SUCID, <<>>)
        entry == detalle_sucursal(row, m, num_sucursal, sucid)
        desde == fecha_valido_desde(row.SEMANAS, fail = "semanas")
    IN IF fail = "sucursal"
       THEN [tbl |-> tbl, res |-> except_deriver(res, row, "sucursal")]
       ELSE IF sucursales(sucid) = {}
       THEN [tbl |-> tbl, res |-> sin_sucursal(res, row, sucid)]
       ELSE IF fail = "check" \/ ~notnan(row.PAISID) \/ ~notnan(m.GRPID)
       THEN [tbl |-> tbl, res |-> except_deriver(res, row, "check")]
       ELSE IF count_sucursal(tbl, row.PAISID, num_sucursal, m.GRPID) > 0
       THEN [tbl |-> tbl, res |-> duplicado(res, entry)]
       ELSE IF fail = "insert" \/ ~notnan(m.CADID)
       THEN [tbl |-> tbl, res |-> except_deriver(res, row, "insert")]
       ELSE [tbl |-> sql_insert(tbl, insert_sucursal(row, m, num_sucursal, sucid, desde)),
             res |-> insertado(res, entry)]

\* Does the iteration reach the store operation op for this row?
reaches_sucursal(tbl, row, op, m) ==
    LET found == sucursales(escaped_or(row.SUCID, <<>>)) # {}
        checked == found /\ notnan(row.PAISID) /\ notnan(m.GRPID)
        fresh == checked /\ count_sucursal(tbl, row.PAISID,
                                escaped_or(row.NUM_SUCURSAL, <<>>), m.GRPID) = 0
    IN CASE op = "none" -> TRUE
         [] op = "sucursal" -> TRUE
         [] op = "check" -> found
         [] op = "semanas" -> fresh /\ notnan(row.SEMANAS)
         [] op = "insert" -> fresh

\* what LIMIT 1 may return for the row (a placeholder when nothing matches)
limit_1(row) ==
    IF sucursales(escaped_or(row.SUCID, <<>>)) = {}
    THEN {[GRPID |-> NULLN, CADID |-> NULLN, SUCNOMBRE |-> NULL, DIRCALLE |-> NULL]}
    ELSE sucursales(escaped_or(row.SUCID, <<>>))

\* The part of the branch deriver before its loop.
sucursal_start(st, ids, fail, ord) ==
    IF ids = <<>> THEN [sel |-> <<>>, res |-> hresults0]
    ELSE IF fail = "select"
    THEN [sel |-> <<>>,
          res |-> [hresults0 EXCEPT !.errors = <<[general |-> "select"]>>]]
    ELSE LET rows == [p \in 1..Len(ord) |-> select_sucursal(st, ord[p])]
         IN [sel |-> rows, res |-> [hresults0 EXCEPT !.total = Len(rows)]]

----------------------------------------------------------------------------
(* Inputs of the derivers *)

SUC_1 == <<"S", "1">>
SUC_Q == <<"S", Q>>
SUC_0 == <<"S", "0">>
SUC_0Q == <<"S", "0", Q>>
COD_X == <<"x">>
COD_Q == <<"x", Q>>
NUM_N == <<"n">>

\* a record of the product case: owner, product code, country, value, week
ProdShape(resp, paisid, rechazado, valor, semanas) ==
    Rechazo("PROPSTID", paisid, BARRAS_Q, 1, resp, "Sellout", MOTIVO_PRODUCTO,
            HOMOLOGACION_PRODUCTO, valor, rechazado, semanas)

ProdShapes ==
    { ProdShape(GOBIERNO_DE_DATOS, 1, COD_X, VALOR_1, 202401),
      ProdShape(GOBIERNO_DE_DATOS, 1, COD_X, VALOR_Q, NULLN),
      ProdShape(GOBIERNO_DE_DATOS, 1, COD_Q, VALOR_1, 202452),
      ProdShape(GOBIERNO_DE_DATOS, 1, NULL, VALOR_1, 202401),
      ProdShape(GOBIERNO_DE_DATOS, NULLN, COD_X, VALOR_1, 202401),
      ProdShape(OLD_RESP, 1, COD_X, VALOR_1, 202401) }

\* product records of another module and with another reason
ProdSellin == Rechazo("PROPSTID", 1, BARRAS_Q, 1, GOBIERNO_DE_DATOS, "Sellin", MOTIVO_PRODUCTO, HOMOLOGACION_PRODUCTO, VALOR_1, COD_Q, 202401)
ProdOtroMotivo == Rechazo("PROPSTID", 1, BARRAS_Q, 1, GOBIERNO_DE_DATOS, "Sellout", MOTIVO_SUCURSAL, HOMOLOGACION_PRODUCTO, VALOR_1, COD_Q, 202401)

\* a record of the branch case: case, branch number, country, value
SucShape(caso, paisid, rechazado, valor) ==
    Rechazo("SUCID", paisid, NULL, NULLN, GOBIERNO_DE_DATOS, "Sellout",
            MOTIVO_SUCURSAL, caso, valor, rechazado, 202401)

SucShapes ==
    { SucShape(HOMOLOGACION_SUCURSAL, 1, NUM_N, SUC_1),
      SucShape(HOMOLOGACION_SUCURSAL, 1, NUM_N, SUC_Q),
      SucShape(HOMOLOGACION_SUCURSAL, 1, NUM_N, SUC_0),
      SucShape(HOMOLOGACION_SUCURSAL, 1, NULL, SUC_0Q),
      SucShape(HOMOLOGACION_SUCURSAL, NULLN, NULL, SUC_1),
      SucShape(OLD_CASO, 1, NUM_N, SUC_1) }

\* rows already in PRO_SO_HOMOLOGACION / SUC_SO_HOMOLOGACION
ProdRow0(cod) ==
    [PAISID |-> 1, COD_PROD |-> cod, DESCRIPCION_PRODUCTO |-> <<"d">>, GRPID |-> 1,
     PROPSTID |-> <<"P", "0">>, PROPSTCODBARRAS |-> NULL, ACTIVO |-> TRUE,
     CREATE_AT |-> "before", UPDATE_AT |-> "before",
     FECHA_VALIDO_DESDE |-> "NULL", FECHA_VALIDO_HASTA |-> FECHA_VALIDO_HASTA]

SucRow0(num) ==
    [PAISID |-> 1, GRPID |-> 1, CADID |-> 7, NUM_SUCURSAL |-> num,
     DESCRIPCION |-> NULL, DIRECCION |-> NULL, SUCID |-> <<"S", "9">>,
     ACTIVO |-> TRUE, CREATE_AT |-> "before", UPDATE_AT |-> "before",
     FECHA_VALIDO_DESDE |-> "NULL", FECHA_VALIDO_HASTA |-> FECHA_VALIDO_HASTA]

\* the records, the two homologation tables (keys unique) and the id list
DerScenarios ==
    {[store |-> st, prod |-> t, suc |-> <<>>, ids |-> i] :
        st \in [{1, 2, 3} -> ProdShapes],
        t \in {<<>>, <<ProdRow0(COD_X)>>, <<ProdRow0(COD_Q), ProdRow0(<<>>)>>},
        i \in {<<1, 2, 3>>, <<3, 1>>}}
    \cup
    {[store |-> st, prod |-> <<>>, suc |-> t, ids |-> i] :
        st \in [{1, 2, 3} -> SucShapes],
        t \in {<<>>, <<SucRow0(NUM_N)>>},
        i \in {<<1, 2, 3>>, <<3, 1>>}}
    \cup
    {[store |-> st, prod |-> <<ProdRow0(COD_X)>>, suc |-> <<>>, ids |-> i] :
        st \in [{1, 2, 3} -> {ProdShape(GOBIERNO_DE_DATOS, 1, COD_X, VALOR_1, 202401),
                              SucShape(HOMOLOGACION_SUCURSAL, 1, NUM_N, SUC_Q),
                              ProdSellin, ProdOtroMotivo}],
        i \in {<<1, 2, 3>>, <<>>}}

\* the scenarios in which store operations are also made to raise
FaultyDerScenarios ==
    {[store |-> st, prod |-> t, suc |-> <<>>, ids |-> <<1, 2>>] :
        st \in [{1, 2} -> {ProdShape(GOBIERNO_DE_DATOS, 1, COD_X, VALOR_1, 202401),
                           ProdShape(GOBIERNO_DE_DATOS, 1, COD_Q, VALOR_Q, 202452)}],
        t \in {<<>>, <<ProdRow0(COD_X)>>}}
    \cup
    {[store |-> st, prod |-> <<>>, suc |-> t, ids |-> <<1, 2>>] :
        st \in [{1, 2} -> {SucShape(HOMOLOGACION_SUCURSAL, 1, NUM_N, SUC_Q),
                           SucShape(HOMOLOGACION_SUCURSAL, 1, NUM_N, SUC_0Q)}],
        t \in {<<>>, <<SucRow0(NUM_N)>>}}

StartFails == {"none", "select", "desc"}
RowFails == {"none", "sucursal", "check", "semanas", "insert"}

----------------------------------------------------------------------------
(* The derivers as a state machine: the product deriver, then the branch
   deriver, called on the same id list and the same store *)

InitDer(scenarios, f) ==
    /\ \E sc \in scenarios :
          /\ store = sc.store /\ prod = sc.prod /\ suc = sc.suc
          /\ ids_in = sc.ids
          /\ results = [results0 EXCEPT !.updated_ids = sc.ids]
    /\ pc = "prod"
    /\ faulty = f
    /\ total = 0 /\ df = <<>> /\ last = NONE
    /\ file = NONE /\ vres = NONE
    /\ sel = <<>> /\ k = 0
    /\ hres = NONE /\ sres = NONE

\* insert_homologaciones_from_rechazos up to its loop
ProdStart ==
    /\ pc = "prod"
    /\ \E fail \in StartFails :
       \E ord \in orders(where_producto(store, ids_in)) :
          /\ fail # "none" => (faulty /\ ids_in # <<>>)
          /\ fail = "desc" => ord # <<>>
          /\ LET r == producto_start(store, ids_in, fail, ord)
             IN /\ sel' = r.sel
                /\ hres' = r.res
                /\ pc' = IF r.sel = <<>> THEN "suc" ELSE "prod_loop"
                /\ last' = [who |-> "prod_start", fail |-> fail, tbl |-> prod,
                            res |-> hresults0]
    /\ k' = 0
    /\ UNCHANGED <<file, vres, store, faulty, prod, suc, total, df, results,
                   ids_in, sres>>

\* one iteration of the loop of the product deriver
ProdRow ==
    /\ pc = "prod_loop"
    /\ k < Len(sel)
    /\ \E fail \in RowFails \ {"sucursal"} :
          /\ fail # "none" => faulty
          /\ reaches_producto(prod, sel[k + 1], fail)
          /\ LET r == producto_row(prod, hres, sel[k + 1], fail)
             IN /\ prod' = r.tbl
                /\ hres' = r.res
                /\ last' = [who |-> "prod", row |-> sel[k + 1], fail |-> fail,
                            tbl |-> prod, res |-> hres]
    /\ k' = k + 1
    /\ pc' = IF k + 1 < Len(sel) THEN "prod_loop" ELSE "suc"
    /\ UNCHANGED <<file, vres, store, faulty, suc, total, df, results, ids_in,
                   sel, sres>>

\* insert_homologaciones_sucursales_from_rechazos up to its loop
SucStart ==
    /\ pc = "suc"
    /\ \E fail \in StartFails \ {"desc"} :
       \E ord \in orders(where_sucursal(store, ids_in)) :
          /\ fail # "none" => (faulty /\ ids_in # <<>>)
          /\ LET r == sucursal_start(store, ids_in, fail, ord)
             IN /\ sel' = r.sel
                /\ sres' = r.res
                /\ pc' = IF r.sel = <<>> THEN "done" ELSE "suc_loop"
                /\ last' = [who |-> "suc_start", fail |-> fail, tbl |-> suc,
                            res |-> hresults0]
    /\ k' = 0
    /\ UNCHANGED <<file, vres, store, faulty, prod, suc, total, df, results,
                   ids_in, hres>>

\* one iteration of the loop of the branch deriver
SucRow ==
    /\ pc = "suc_loop"
    /\ k < Len(sel)
    /\ \E fail \in RowFails, m \in limit_1(sel[k + 1]) :
          /\ fail # "none" => faulty
          /\ reaches_sucursal(suc, sel[k + 1], fail, m)
          /\ LET r == sucursal_row(suc, sres, sel[k + 1], fail, m)
             IN /\ suc' = r.tbl
                /\ sres' = r.res
                /\ last' = [who |-> "suc", row |-> sel[k + 1], fail |-> fail,
                            tbl |-> suc, res |-> sres]
    /\ k' = k + 1
    /\ pc' = IF k + 1 < Len(sel) THEN "suc_loop" ELSE "done"
    /\ UNCHANGED <<file, vres, store, faulty, prod, total, df, results, ids_in,
                   sel, hres>>

InitDerive == InitDer(DerScenarios, FALSE)
InitDeriveFaulty == InitDer(FaultyDerScenarios, TRUE)

NextDerive == ProdStart \/ ProdRow \/ SucStart \/ SucRow

SpecDerive == InitDerive /\ [][NextDerive]_vars
SpecDeriveFaulty == InitDeriveFaulty /\ [][NextDerive]_vars

\* the derivers with and without store operations that raise
InitDerivers == InitDerive \/ InitDeriveFaulty
SpecDerivers == InitDerivers /\ [][NextDerive]_vars

\* the three store-writing functions, each on its own inputs, with store
\* operations that may raise
InitFaulty == InitUpdateFaulty \/ InitDeriveFaulty
NextFaulty == UpdateRow \/ ProdStart \/ ProdRow \/ SucStart \/ SucRow
SpecFaulty == InitFaulty /\ [][NextFaulty]_vars

\* the same, with and without store operations that raise
InitWorkflow == InitUpdate \/ InitUpdateFaulty \/ InitDerive \/ InitDeriveFaulty
SpecWorkflow == InitWorkflow /\ [][NextFaulty]_vars

----------------------------------------------------------------------------
(* Inputs of the validator *)

\* the largest number of distinct duplicated ids of an id column
MaxDupVals == 11

\* the text of a number below 100
id_text(n) ==
    IF n < 10 THEN <<DIGITS[n + 1]>>
    ELSE <<DIGITS[(n \div 10) + 1], DIGITS[(n % 10) + 1]>>

\* An id column: the ids 1..d twice each (the first a third time if thrice),
\* then one id that occurs once, then a cell that is no number if bad; nulls
\* missing cells in front or at the end.
IdColumn(d, thrice, bad, nulls, front) ==
    LET vals == [p \in 1..d |-> id_text(p)]
        body == vals \o vals
                \o (IF thrice /\ d > 0 THEN <<vals[1]>> ELSE <<>>)
                \o <<id_text(d + 1)>>
                \o (IF bad THEN << <<"a">> >> ELSE <<>>)
        ns == [p \in 1..nulls |-> NULL]
    IN IF front THEN ns \o body ELSE body \o ns

IdColumns ==
    {IdColumn(d, t, b, n, f) :
        d \in 0..MaxDupVals, t \in BOOLEAN, b \in BOOLEAN,
        n \in 0..2, f \in BOOLEAN}

\* the name of the required column r as the file spells it
spelled(r, shout) ==
    IF r = 0 THEN <<"n">>
    ELSE IF shout
    THEN <<" ">> \o [p \in 1..Len(REQUIRED_COLUMNS[r]) |->
                        upper_char(REQUIRED_COLUMNS[r][p])] \o <<" ">>
    ELSE REQUIRED_COLUMNS[r]

\* The frame with the required columns of `present` (and one more column);
\* shout: names in capitals with blanks around, columns in reverse order;
\* upd: which update columns hold a value.
Frame(present, shout, ids, upd) ==
    LET order == IF shout THEN <<4, 3, 2, 1, 0>> ELSE <<0, 1, 2, 3, 4>>
        kept == SelectSeq(order, LAMBDA r : r = 0 \/ r \in present)
        blank == [p \in 1..Len(ids) |-> NULL]
        cells(r) ==
            CASE r = 0 -> blank
              [] r = 1 -> ids
              [] r = 2 -> IF upd = "all" THEN [p \in 1..Len(ids) |-> <<"c">>] ELSE blank
              [] r = 3 -> IF upd = "all" THEN [p \in 1..Len(ids) |-> <<"r">>] ELSE blank
              [] r = 4 -> IF upd = "none" THEN blank
                          ELSE [p \in 1..Len(ids) |-> IF p = 1 THEN <<"v">> ELSE NULL]
    IN [columns |-> [p \in 1..Len(kept) |-> spelled(kept[p], shout)],
        data |-> [p \in 1..Len(kept) |-> cells(kept[p])],
        present |-> present]

Frames ==
    {Frame({1, 2, 3, 4}, sh, ids, upd) :
        sh \in BOOLEAN, ids \in IdColumns, upd \in {"none", "valor", "all"}}
    \cup
    {Frame(pr, sh, ids, upd) :
        pr \in (SUBSET {1, 2, 3, 4}) \ {{1, 2, 3, 4}}, sh \in BOOLEAN,
        ids \in {IdColumn(0, FALSE, FALSE, 0, FALSE), IdColumn(2, TRUE, TRUE, 2, TRUE)},
        upd \in {"none", "all"}}

----------------------------------------------------------------------------
(* The validator as a state machine *)

InitValidate ==
    /\ file \in Frames
    /\ pc = "validate"
    /\ vres = NONE
    /\ store = <<>> /\ faulty = FALSE
    /\ prod = <<>> /\ suc = <<>>
    /\ total = 0 /\ df = <<>> /\ last = NONE /\ results = NONE
    /\ ids_in = <<>> /\ sel = <<>> /\ k = 0
    /\ hres = NONE /\ sres = NONE

\* validate_data(df): the pair (is_valid, errors) is returned
Validate ==
    /\ pc = "validate"
    /\ vres' = validate_data(file)
    /\ pc' = IF vres'.valid THEN "valid" ELSE "rejected"
    /\ UNCHANGED <<file, store, faulty, prod, suc, total, df, last, results,
                   ids_in, sel, k, hres, sres>>

NextValidate == Validate

SpecValidate == InitValidate /\ [][NextValidate]_vars

----------------------------------------------------------------------------
(* Inputs of the transformation *)

\* the largest number of rows of a file
MaxFileRows == 2

\* the cells of a row: id, case, value
FileRows ==
    {<<id, caso, valor>> :
        id \in {<<"1">>, <<"0", "7">>, NAN, <<"a">>},
        caso \in {NAN, <<" ", "c", " ">>, <<"n", "a", "n">>},
        valor \in {NAN, <<"v">>}}

\* the frame read from a file with these rows: the four required columns and
\* one more that is empty, the case owner equal to the case; shout as for Frame
FileFrame(shout, rows) ==
    LET order == IF shout THEN <<4, 3, 2, 1, 0>> ELSE <<0, 1, 2, 3, 4>>
        cells(r) ==
            CASE r = 1 -> [p \in 1..Len(rows) |-> rows[p][1]]
              [] r \in {2, 3} -> [p \in 1..Len(rows) |-> rows[p][2]]
              [] r = 4 -> [p \in 1..Len(rows) |-> rows[p][3]]
              [] OTHER -> [p \in 1..Len(rows) |-> NAN]
    IN [columns |-> [p \in 1..Len(order) |-> spelled(order[p], shout)],
        data |-> [p \in 1..Len(order) |-> cells(order[p])]]

FileFrames ==
    {FileFrame(sh, rows) :
        sh \in BOOLEAN,
        rows \in UNION {[1..n -> FileRows] : n \in 0..MaxFileRows}}

\* the values of datetime.now() in the first and in the second call
NOW_1 == [update_at |-> <<10, 4>>, fecha |-> <<10, 6>>]
NOW_2 == [update_at |-> <<20, 4>>, fecha |-> <<20, 6>>]

----------------------------------------------------------------------------
(* The transformation as a state machine *)

\* file is the frame handed to transform_for_database, df the frame returned
InitTransform ==
    /\ file \in FileFrames
    /\ vres = validate_data(file)
    /\ pc = "transform"
    /\ df = <<>>
    /\ store = <<>> /\ faulty = FALSE
    /\ prod = <<>> /\ suc = <<>>
    /\ total = 0 /\ last = NONE /\ results = NONE
    /\ ids_in = <<>> /\ sel = <<>> /\ k = 0
    /\ hres = NONE /\ sres = NONE

\* transform_for_database(df): the transformed frame is returned
Transform ==
    /\ pc = "transform"
    /\ df' = transform_for_database(file, NOW_1)
    /\ pc' = "transformed"
    /\ UNCHANGED <<file, vres, store, faulty, prod, suc, total, last, results,
                   ids_in, sel, k, hres, sres>>

\* transform_for_database applied to the frame it returned
Retransform ==
    /\ pc = "transformed"
    /\ file' = df
    /\ df' = transform_for_database(df, NOW_2)
    /\ pc' = "retransformed"
    /\ UNCHANGED <<vres, store, faulty, prod, suc, total, last, results,
                   ids_in, sel, k, hres, sres>>

NextTransform == Transform \/ Retransform

SpecTransform == InitTransform /\ [][NextTransform]_vars

----------------------------------------------------------------------------
(* main: the upload, the reading of the file *)

\* the methods class DataProcessor defines
DataProcessor == {"__init__", "read_csv", "validate_data",
                  "transform_for_database", "_find_column"}

\* str.endswith
endswith(t, suffix) ==
    /\ Len(t) >= Len(suffix)
    /\ SubSeq(t, Len(t) - Len(suffix) + 1, Len(t)) = suffix

\* the check of the extension of the uploaded file
extension_ok(name) ==
    \/ endswith(lower(name), <<".", "c", "s", "v">>)
    \/ endswith(lower(name), <<".", "x", "l", "s", "x">>)

\* names of uploaded files
Names ==
    { <<"a", ".", "c", "s", "v">>, <<"a", ".", "C", "S", "V">>,
      <<"a", ".", "x", "l", "s", "x">>, <<"a", ".", "t", "x", "t">>,
      <<"c", "s", "v">> }

\* a file of one row with the four required columns
OneRow(id, caso, resp, valor) ==
    [columns |-> REQUIRED_COLUMNS,
     data |-> << <<id>>, <<caso>>, <<resp>>, <<valor>> >>]

OneRowFrames ==
    {OneRow(id, c[1], c[2], c[3]) :
        id \in {<<"1">>, <<"2">>},
        c \in { <<HOMOLOGACION_PRODUCTO, GOBIERNO_DE_DATOS, VALOR_1>>,
                <<HOMOLOGACION_PRODUCTO, GOBIERNO_DE_DATOS, VALOR_Q>>,
                <<HOMOLOGACION_PRODUCTO, GOBIERNO_DE_DATOS, NAN>>,
                <<NAN, NAN, VALOR_1>>,
                <<CASO_Q, NAN, NAN>>,
                <<NAN, NAN, NAN>> }}

Uploads == [name : Names, frame : OneRowFrames]

\* a product rejection of module Sellout with the reason of the product deriver
ProductoSellout == Rechazo("PROPSTID", 1, BARRAS_1, 2, OLD_RESP, "Sellout", MOTIVO_PRODUCTO, OLD_CASO, OLD_VALOR, COD_X, NULLN)

MainShapes ==
    { ProductoSellout,
      Rechazo("SUCID", 1, BARRAS_1, 2, OLD_RESP, "Sellout", MOTIVO_SUCURSAL,
              OLD_CASO, OLD_VALOR, COD_X, NULLN),
      Rechazo("PROPSTID", NULLN, BARRAS_1, 1, OLD_RESP, "Sellout", MOTIVO_PRODUCTO,
              OLD_CASO, OLD_VALOR, COD_Q, NULLN) }

MainStores == [{1} -> MainShapes] \cup [{1, 2} -> MainShapes]

InitMain ==
    /\ file \in Uploads
    /\ store \in MainStores
    /\ prod = <<>> /\ suc = <<>>
    /\ pc = "main"
    /\ vres = NONE /\ faulty = FALSE
    /\ total = 0 /\ df = <<>> /\ last = NONE /\ results = NONE
    /\ ids_in = <<>> /\ sel = <<>> /\ k = 0
    /\ hres = NONE /\ sres = NONE

\* main, from the uploaded file on: a name without the extension .csv or .xlsx
\* is refused; else processor.read_file(uploaded_file) is called, and a call of
\* a method the class does not define raises AttributeError, which the handler
\* of the outer try reports: nothing of the file is validated, transformed or
\* written to the store.
MainRead ==
    /\ pc = "main"
    /\ IF ~extension_ok(file.name)
       THEN pc' = "bad_extension" /\ df' = df
       ELSE IF "read_file" \in DataProcessor
       THEN pc' = "validate" /\ df' = file.frame
       ELSE pc' = "read_error" /\ df' = df
    /\ UNCHANGED <<file, vres, store, faulty, prod, suc, total, last, results,
                   ids_in, sel, k, hres, sres>>

NextMain == MainRead

SpecMain == InitMain /\ [][NextMain]_vars

----------------------------------------------------------------------------
(* Properties of the update engine *)

\* the last iteration ran and its row was processed without failure
RowDone == last # NONE /\ results.failed = last.results.failed
\* the last iteration ran and its row failed
RowFailed == last # NONE /\ results.failed # last.results.failed

\* the record the last row targets exists
HasTarget == last # NONE /\ last.row.RECHAZOID \in DOMAIN last.store

\* j is a sibling of the target t: another row with the country and the
\* barcode of t (both present), field PROPSTID, in a code-sharing group
Sibling(st, t, j) ==
    /\ j # t
    /\ st[j].PAISID # NULLN /\ st[j].PAISID = st[t].PAISID
    /\ st[j].CODIGO_BARRAS # NULL /\ st[j].CODIGO_BARRAS = st[t].CODIGO_BARRAS
    /\ st[j].CAMPO_RECHAZADO = "PROPSTID"
    /\ st[j].GRPID \in COMPARTE_EAN

\* the last row supplies a value and targets a PROPSTID record
Propagating ==
    /\ HasTarget
    /\ has(last.row, "VALOR_HOMOLOGACION")
    /\ last.store[last.row.RECHAZOID].CAMPO_RECHAZADO = "PROPSTID"

\* C1: after a row with a non-null homologatedValue whose target has
\* rejectedField PROPSTID is processed without failure, every other record
\* with the target's country and barcode, field PROPSTID and a code-sharing
\* group holds the row's homologatedValue, updatedAt and resolvedAt, and its
\* id is in updated_ids.
C1_SiblingsUpdated ==
    (RowDone /\ Propagating) =>
        \A j \in DOMAIN store :
            Sibling(last.store, last.row.RECHAZOID, j) =>
                /\ store[j].VALOR_HOMOLOGACION = last.row.VALOR_HOMOLOGACION
                /\ store[j].UPDATE_AT = last.row.UPDATE_AT[1]
                /\ store[j].FECHA_SOLUCION_RECHAZO = last.row.FECHA_SOLUCION_RECHAZO[1]
                /\ j \in Range(results.updated_ids)

\* a row whose value and whose target's barcode hold a quote was propagated
\* to two siblings
C1_Witness ==
    /\ RowDone /\ Propagating
    /\ last.row.VALOR_HOMOLOGACION = VALOR_Q
    /\ last.store[last.row.RECHAZOID].CODIGO_BARRAS = BARRAS_Q
    /\ Cardinality({j \in DOMAIN store :
                       /\ Sibling(last.store, last.row.RECHAZOID, j)
                       /\ store[j].VALOR_HOMOLOGACION = VALOR_Q
                       /\ last.store[j].VALOR_HOMOLOGACION # VALOR_Q}) = 2

\* C2: for rows with distinct ids, updated_ids lists no id twice.
C2_NoDuplicateIds ==
    NoDup([p \in 1..Len(df) |-> df[p].RECHAZOID]) => NoDup(results.updated_ids)

\* C7: a failing row adds one to failed and one error naming the row, the
\* loop goes on to every later row, and what the store took before the
\* failure stays: nothing for a failed primary update, the primary update
\* for a failed lookup or propagation, both updates for a failed id query.
C7_RowFailureIsLocal ==
    /\ pc = "updated" => Len(df) = total
    /\ (pc = "update" /\ last # NONE) => Len(df) < total
    /\ RowFailed =>
        LET t == last.row.RECHAZOID
            e == results.errors[Len(results.errors)]
        IN /\ results.failed = last.results.failed + 1
           /\ Len(results.errors) = Len(last.results.errors) + 1
           /\ SubSeq(results.errors, 1, Len(last.results.errors)) = last.results.errors
           /\ e.row = Len(df) /\ e.id = t
           /\ e.what = "primary" => store = last.store
           /\ (e.what # "primary" /\ HasTarget) =>
                 /\ store[t].UPDATE_AT = last.row.UPDATE_AT[1]
                 /\ store[t].VALOR_HOMOLOGACION = last.row.VALOR_HOMOLOGACION
           /\ e.what \in {"info", "propagate"} =>
                 \A j \in DOMAIN store \ {t} : store[j] = last.store[j]
           /\ e.what = "ids" =>
                 \A j \in DOMAIN store :
                    Sibling(last.store, t, j) =>
                       store[j].VALOR_HOMOLOGACION = last.row.VALOR_HOMOLOGACION

\* the first row failed after its propagation, the second row was still
\* processed, and the run returned with the first row's writes in place
C7_Witness ==
    /\ pc = "updated" /\ Len(df) = 2
    /\ results.failed = 1
    /\ results.errors[1].row = 1 /\ results.errors[1].what = "ids"
    /\ df[1].RECHAZOID # df[2].RECHAZOID
    /\ df[1].RECHAZOID \in DOMAIN store
    /\ store[df[1].RECHAZOID].UPDATE_AT = df[1].UPDATE_AT[1]
    /\ \E j \in DOMAIN store \ {df[1].RECHAZOID, df[2].RECHAZOID} :
          store[j].VALOR_HOMOLOGACION = df[1].VALOR_HOMOLOGACION

\* C8: the primary update changes on the target only updatedAt, resolvedAt
\* and those of case, caseOwner, homologatedValue that are non-null in the
\* row; the columns it does set hold the row's values.
C8_PartialUpdate ==
    (HasTarget /\ ~(RowFailed /\ results.errors[Len(results.errors)].what = "primary")) =>
        LET t == last.row.RECHAZOID
        IN \A c \in DOMAIN store[t] :
              IF c \in {"UPDATE_AT", "FECHA_SOLUCION_RECHAZO"}
              THEN store[t][c] = last.row[c][1]
              ELSE IF c \in {"CASO", "RESPONSABLE_DE_CASO", "VALOR_HOMOLOGACION"}
                      /\ has(last.row, c)
              THEN store[t][c] = last.row[c]
              ELSE store[t][c] = last.store[t][c]

\* a row without case and case owner was applied: the value was replaced,
\* case and case owner are the old ones
C8_Witness ==
    /\ HasTarget /\ RowDone
    /\ last.row.CASO = NULL /\ last.row.RESPONSABLE_DE_CASO = NULL
    /\ store[last.row.RECHAZOID].VALOR_HOMOLOGACION = VALOR_Q
    /\ last.store[last.row.RECHAZOID].VALOR_HOMOLOGACION = OLD_VALOR
    /\ store[last.row.RECHAZOID].CASO = OLD_CASO
    /\ store[last.row.RECHAZOID].RESPONSABLE_DE_CASO = OLD_RESP

\* C18: propagation changes on a record other than the target only
\* homologatedValue, updatedAt and resolvedAt (case and caseOwner stay, also
\* when the row supplies them); and a row without a value, or whose target
\* does not exist or is no PROPSTID record, changes no record other than its
\* target and adds no id but its own to updated_ids.
C18_PropagationFrame ==
    last # NONE =>
        LET t == last.row.RECHAZOID
        IN /\ \A j \in DOMAIN store \ {t} :
                 \A c \in DOMAIN store[j] :
                    c \notin {"VALOR_HOMOLOGACION", "UPDATE_AT", "FECHA_SOLUCION_RECHAZO"}
                       => store[j][c] = last.store[j][c]
           /\ ~Propagating =>
                 /\ \A j \in DOMAIN store \ {t} : store[j] = last.store[j]
                 /\ Range(results.updated_ids)
                       \subseteq Range(last.results.updated_ids) \cup {t}
                 /\ Len(results.updated_ids) <= Len(last.results.updated_ids) + 1

\* a row with case, case owner and value was propagated to a sibling, which
\* took the value and the timestamps and kept its case and case owner
C18_Witness ==
    /\ RowDone /\ Propagating
    /\ last.row.CASO = GOBIERNO_DE_DATOS
    /\ last.row.RESPONSABLE_DE_CASO = GOBIERNO_DE_DATOS
    /\ \E j \in DOMAIN store \ {last.row.RECHAZOID} :
          /\ store[j].VALOR_HOMOLOGACION = VALOR_1
          /\ last.store[j].VALOR_HOMOLOGACION = OLD_VALOR
          /\ store[j].UPDATE_AT = last.row.UPDATE_AT[1]
          /\ store[j].CASO = OLD_CASO
          /\ store[j].RESPONSABLE_DE_CASO = OLD_RESP
          /\ store[last.row.RECHAZOID].CASO = GOBIERNO_DE_DATOS

\* C19: every row is counted once, as updated or as failed: a row that
\* appended an error adds nothing to updated or updated_ids, and a row that
\* adds no sibling adds exactly one to updated + failed.
C19_CountedOnce ==
    /\ RowFailed =>
          /\ results.updated = last.results.updated
          /\ results.updated_ids = last.results.updated_ids
    /\ (last # NONE /\ Len(results.updated_ids) <= Len(last.results.updated_ids) + 1
                    /\ Range(results.updated_ids)
                          \subseteq Range(last.results.updated_ids) \cup {last.row.RECHAZOID}) =>
          results.updated + results.failed
             = last.results.updated + last.results.failed + 1

\* C20: every id of updated_ids is the id of a record of the store, and a
\* row whose id matches no record adds nothing to updated or updated_ids.
C20_UpdatedIdsExist ==
    /\ Range(results.updated_ids) \subseteq DOMAIN store
    /\ (last # NONE /\ ~HasTarget) =>
          /\ results.updated = last.results.updated
          /\ results.updated_ids = last.results.updated_ids

\* the run returned and no row failed
AllRowsDone == pc = "updated" /\ results.failed = 0

\* the row of position p is the only row of the frame with its id, it
\* supplies a value and its record exists
OwnRow(p) ==
    /\ has(df[p], "VALOR_HOMOLOGACION")
    /\ df[p].RECHAZOID \in DOMAIN store
    /\ \A q \in 1..Len(df) : q # p => df[q].RECHAZOID # df[p].RECHAZOID

\* C21: after update_rechazos has processed all rows without failure, every
\* record whose id is in the frame with a non-null homologatedValue holds
\* the homologatedValue of its own row, whatever the order of the rows; two
\* rows that target code-sharing PROPSTID siblings with different values
\* leave each record with its own row's value.
C21_OwnValueKept ==
    AllRowsDone =>
        \A p \in 1..Len(df) :
            OwnRow(p) =>
                store[df[p].RECHAZOID].VALOR_HOMOLOGACION = df[p].VALOR_HOMOLOGACION

----------------------------------------------------------------------------
(* Properties of the derivers *)

\* the key of a selected record (a missing product code is the empty code)
\* and of a row of PRO_SO_HOMOLOGACION
RecProdKey(row) ==
    <<row.PAISID, IF row.COD_PROD = NULL THEN <<>> ELSE row.COD_PROD, row.GRPID>>
ProdKey(t) == <<t.PAISID, t.COD_PROD, t.GRPID>>
SucKey(t) == <<t.PAISID, t.NUM_SUCURSAL, t.GRPID>>

\* the last iteration was one of the product deriver, its duplicate check was
\* answered, and the key of its record was in the table
KeyExisted ==
    /\ last # NONE /\ last.who = "prod" /\ last.fail # "check"
    /\ \E p \in 1..Len(last.tbl) : ProdKey(last.tbl[p]) = RecProdKey(last.row)

\* C3: a selected record whose (countryId, productCode, groupId) is in
\* ProductHomologation when it is checked is counted in duplicated, gets an
\* entry in duplicates, is not inserted and leaves the table as it was; one
\* selected record with an existing key gives duplicated = 1, inserted = 0.
C3_ExistingKeyIsDuplicate ==
    KeyExisted =>
        /\ hres.duplicated = last.res.duplicated + 1
        /\ Len(hres.duplicates) = Len(last.res.duplicates) + 1
        /\ hres.duplicates[Len(hres.duplicates)].RECHAZOID = last.row.RECHAZOID
        /\ hres.inserted = last.res.inserted
        /\ hres.inserted_details = last.res.inserted_details
        /\ hres.failed = last.res.failed
        /\ prod = last.tbl
        /\ hres.total = 1 => (hres.duplicated = 1 /\ hres.inserted = 0)

\* two selected records, one with a quote in its code and one without a code,
\* both with keys already in the table: two duplicates, no insert
C3_Witness ==
    /\ KeyExisted
    /\ last.row.COD_PROD = COD_Q
    /\ hres.total = 2 /\ hres.duplicated = 2 /\ hres.inserted = 0
    /\ Len(prod) = 2

\* the last iteration was one of the branch deriver, its lookup was answered
\* and no branch has the record's homologated branch id
NoSucursal ==
    /\ last # NONE /\ last.who = "suc" /\ last.fail # "sucursal"
    /\ \A m \in VW_ESTRUCTURASUCURSALES : m.SUCID # last.row.SUCID

\* C5: a selected record whose branch id resolves to no branch adds one to
\* failed and one error naming its rejection-id and the branch id (as it was
\* written into the lookup, quotes doubled); nothing is inserted, duplicates
\* is unchanged, and the loop goes on with the next selected record.
C5_UnresolvedBranchFails ==
    /\ NoSucursal =>
        /\ sres.failed = last.res.failed + 1
        /\ sres.errors = Append(last.res.errors,
                                [id |-> last.row.RECHAZOID, what |-> "no_sucursal",
                                 sucid |-> replace(last.row.SUCID)])
        /\ suc = last.tbl
        /\ sres.inserted = last.res.inserted
        /\ sres.inserted_details = last.res.inserted_details
        /\ sres.duplicated = last.res.duplicated
        /\ sres.duplicates = last.res.duplicates
        /\ k < Len(sel) => pc = "suc_loop"
    /\ (pc = "done" /\ sres # NONE) => k = Len(sel)

\* an unresolved record was followed by a second unresolved one and by one
\* that was inserted
C5_Witness ==
    /\ pc = "done" /\ sres.total = 3
    /\ sres.failed = 2 /\ sres.inserted = 1
    /\ sres.errors[1].what = "no_sucursal" /\ sres.errors[2].what = "no_sucursal"
    /\ sres.errors[2].sucid = replace(SUC_0Q)
    /\ sel[1].SUCID = SUC_0 /\ sel[3].SUCID = SUC_Q

\* C6: no two rows of ProductHomologation have one (countryId, productCode,
\* groupId) and no two rows of BranchHomologation have one (countryId,
\* branchNumber, groupId), also when records of one run carry the same new key.
C6_KeysUnique ==
    /\ \A a, b \in 1..Len(prod) : a # b => ProdKey(prod[a]) # ProdKey(prod[b])
    /\ \A a, b \in 1..Len(suc) : a # b => SucKey(suc[a]) # SucKey(suc[b])

\* three selected records carried one key that was not in the table: the
\* first was inserted, the two later ones are duplicates
C6_Witness ==
    /\ pc = "suc" /\ hres # NONE
    /\ hres.total = 3 /\ hres.inserted = 1 /\ hres.duplicated = 2
    /\ Len(prod) = 1
    /\ ProdKey(prod[1]) = <<1, COD_X, 1>>

\* the records of the id list with owner Gobierno de Datos, module Sellout,
\* field PROPSTID and the reason of the product case
Eligible ==
    {j \in DOMAIN store :
        /\ \E p \in 1..Len(ids_in) : ids_in[p] = j
        /\ store[j].RESPONSABLE_DE_CASO = GOBIERNO_DE_DATOS
        /\ store[j].MODULO = "Sellout"
        /\ store[j].CAMPO_RECHAZADO = "PROPSTID"
        /\ store[j].MOTIVO_RECHAZO = MOTIVO_PRODUCTO}

\* C13: the product deriver processes exactly the eligible records: total is
\* their number, the loop runs over them and no others, and every insert,
\* duplicate entry and error is for one of them.
C13_ExactSelection ==
    hres # NONE =>
        /\ hres.total = Cardinality(Eligible)
        /\ pc = "prod_loop" =>
              /\ Len(sel) = hres.total
              /\ {sel[p].RECHAZOID : p \in 1..Len(sel)} = Eligible
        /\ \A p \in 1..Len(hres.inserted_details) :
              hres.inserted_details[p].RECHAZOID \in Eligible
        /\ \A p \in 1..Len(hres.duplicates) :
              hres.duplicates[p].RECHAZOID \in Eligible
        /\ \A p \in 1..Len(hres.errors) : hres.errors[p].id \in Eligible
        /\ pc \notin {"prod", "prod_loop"} =>
              hres.inserted + hres.duplicated + hres.failed = hres.total

\* of three listed records, one of module Sellin, one eligible and one with
\* another reason, only the eligible one was processed
C13_Witness ==
    /\ pc = "suc" /\ hres # NONE
    /\ ids_in = <<1, 2, 3>>
    /\ store[1] = ProdSellin /\ store[3] = ProdOtroMotivo
    /\ hres.total = 1 /\ hres.duplicated = 1
    /\ hres.duplicates[1].RECHAZOID = 2

\* the summary the last step of a deriver worked on
Summary == IF last.who \in {"prod", "prod_start"} THEN hres ELSE sres
Tabla == IF last.who \in {"prod", "prod_start"} THEN prod ELSE suc

\* the last step was one of the update engine / of a deriver
UpdateStep == last # NONE /\ pc \in {"update", "updated"}
DeriverStep == last # NONE /\ pc \notin {"update", "updated"}

\* a failed selection: one general error, nothing counted, nothing inserted
GeneralError ==
    /\ Summary.total = 0 /\ Summary.inserted = 0
    /\ Summary.duplicated = 0 /\ Summary.failed = 0
    /\ Len(Summary.errors) = 1
    /\ "general" \in DOMAIN Summary.errors[1]
    /\ Summary.inserted_details = <<>> /\ Summary.duplicates = <<>>
    /\ Tabla = last.tbl

\* C14 as stated: no failing store operation reaches the caller (the function
\* returns its summary); every failing store operation adds an entry to the
\* returned errors; a failed selection of a deriver gives one general error
\* with total, inserted, duplicated and failed all 0 and no insert.
C14_EveryFailureListed ==
    /\ (UpdateStep /\ last.fail # "none") =>
          Len(results.errors) = Len(last.results.errors) + 1
    /\ (DeriverStep /\ last.fail # "none") =>
          Len(Summary.errors) = Len(last.res.errors) + 1
    /\ (DeriverStep /\ last.fail = "select") => GeneralError

\* C14, amended: as above, except that a failing description lookup and a
\* failing week lookup add no error: the record goes on with the placeholder
\* description or without a valid-from date.
C14_FailuresListedButLookups ==
    /\ (UpdateStep /\ last.fail # "none") =>
          /\ Len(results.errors) = Len(last.results.errors) + 1
          /\ results.errors[Len(results.errors)].what = last.fail
          /\ results.failed = last.results.failed + 1
    /\ (DeriverStep /\ last.fail \notin {"none", "desc", "semanas", "select"}) =>
          /\ Len(Summary.errors) = Len(last.res.errors) + 1
          /\ Summary.errors[Len(Summary.errors)]
                = [id |-> last.row.RECHAZOID, what |-> last.fail]
          /\ Summary.failed = last.res.failed + 1
          /\ Tabla = last.tbl
    /\ (DeriverStep /\ last.fail = "select") => GeneralError
    /\ (DeriverStep /\ last.fail = "desc") =>
          /\ Summary.errors = <<>>
          /\ \A p \in 1..Len(sel) : sel[p].DESCRIPCION_PRODUCTO = PRODUCTO_HOMOLOGADO
    /\ (DeriverStep /\ last.fail = "semanas") =>
          /\ Summary.errors = last.res.errors
          /\ Summary.inserted = last.res.inserted + 1
          /\ Tabla[Len(Tabla)].FECHA_VALIDO_DESDE = "NULL"

\* the product deriver returned with one record failed at its insert, and
\* the selection of the branch deriver failed
C14_Witness ==
    /\ pc = "done" /\ last # NONE
    /\ last.who = "suc_start" /\ last.fail = "select"
    /\ sres.errors = <<[general |-> "select"]>> /\ sres.total = 0
    /\ hres.total = 2 /\ hres.failed = 1 /\ hres.inserted = 1
    /\ hres.errors[1].what = "insert"

\* C16: no step creates or deletes a record of RECHAZOS_SEGUIMIENTO, no step
\* of a deriver changes a record, and every row of the two homologation
\* tables stays as it is: the tables only grow at their end.
C16_OnlyUpdatesAndInserts ==
    [][ /\ DOMAIN store' = DOMAIN store
        /\ pc # "update" => store' = store
        /\ Len(prod') >= Len(prod) /\ SubSeq(prod', 1, Len(prod)) = prod
        /\ Len(suc') >= Len(suc) /\ SubSeq(suc', 1, Len(suc)) = suc
        /\ pc = "update" => (prod' = prod /\ suc' = suc) ]_vars

\* the derivers returned after an insert into a table that held rows, and
\* the rows it held are still its first rows
C16_Witness ==
    /\ pc = "done" /\ hres # NONE
    /\ hres.inserted = 1 /\ hres.duplicated = 2
    /\ Len(prod) = 3
    /\ prod[1] = ProdRow0(COD_Q) /\ prod[2] = ProdRow0(<<>>)
    /\ \A j \in DOMAIN store : store[j].UPDATE_AT = 0

\* the last iteration was one of the product deriver for a record whose key
\* was not in the table, with the check and the insert executed, and the
\* week of the record is missing, not in the calendar, or its lookup raised
WeekUnresolved ==
    /\ last # NONE /\ last.who = "prod"
    /\ last.fail \in {"none", "semanas"}
    /\ last.row.PAISID # NULLN /\ last.row.GRPID # NULLN
    /\ \A p \in 1..Len(last.tbl) : ProdKey(last.tbl[p]) # RecProdKey(last.row)
    /\ \/ last.row.SEMANAS = NULLN
       \/ last.fail = "semanas"
       \/ \A w \in CATSEMANAS :
             w.SEMANIO * 100 + w.SEMNUMERO # last.row.SEMANAS

\* C17: a selected record with a new key whose week is unresolved is inserted
\* with validFrom null, active true and validUntil 2999-12-31 00:00:00, and is
\* counted in inserted, not in failed.
C17_WeekMissIsNoFailure ==
    WeekUnresolved =>
        /\ Len(prod) = Len(last.tbl) + 1
        /\ SubSeq(prod, 1, Len(last.tbl)) = last.tbl
        /\ ProdKey(prod[Len(prod)]) = RecProdKey(last.row)
        /\ prod[Len(prod)].FECHA_VALIDO_DESDE = "NULL"
        /\ prod[Len(prod)].ACTIVO = TRUE
        /\ prod[Len(prod)].FECHA_VALIDO_HASTA = "2999-12-31 00:00:00"
        /\ hres.inserted = last.res.inserted + 1
        /\ hres.failed = last.res.failed
        /\ hres.errors = last.res.errors
        /\ hres.duplicated = last.res.duplicated

\* a record whose week lookup raised and a record whose week is not in the
\* calendar were both inserted without a valid-from date
C17_Witness ==
    /\ WeekUnresolved /\ faulty
    /\ last.fail = "none" /\ last.row.SEMANAS = 202452
    /\ Len(prod) = 2
    /\ prod[1].COD_PROD = COD_X /\ prod[1].CREATE_AT = FECHA_ACTUAL
    /\ prod[1].FECHA_VALIDO_DESDE = "NULL"
    /\ prod[2].FECHA_VALIDO_DESDE = "NULL"
    /\ hres.inserted = 2 /\ hres.failed = 0

\* the summary holds no "general" error
NoGeneral(S) == \A p \in 1..Len(S.errors) : "general" \notin DOMAIN S.errors[p]

\* the counts of a summary are the lengths of its lists
CountsAreLengths(S) ==
    /\ Len(S.errors) = S.failed
    /\ Len(S.duplicates) = S.duplicated
    /\ Len(S.inserted_details) = S.inserted

\* the number of entries (inserted, duplicate, error) a summary has for id j
Outcomes(S, j) ==
    Cardinality({p \in 1..Len(S.inserted_details) : S.inserted_details[p].RECHAZOID = j})
    + Cardinality({p \in 1..Len(S.duplicates) : S.duplicates[p].RECHAZOID = j})
    + Cardinality({p \in 1..Len(S.errors) :
                      "id" \in DOMAIN S.errors[p] /\ S.errors[p].id = j})

\* the summary S of a deriver that selected the records of who and returned
Partitioned(S, who) ==
    NoGeneral(S) =>
        /\ S.total = Cardinality(who)
        /\ S.total = S.inserted + S.duplicated + S.failed
        /\ CountsAreLengths(S)
        /\ \A j \in DOMAIN store : Outcomes(S, j) = (IF j \in who THEN 1 ELSE 0)

\* the product deriver / the branch deriver has returned its summary
ProdReturned == hres # NONE /\ pc \in {"suc", "suc_loop", "done"}
SucReturned == sres # NONE /\ pc = "done"

\* C22: in both derivers, when the summary holds no general error, every
\* selected record ends in exactly one of inserted, duplicated and failed:
\* total = inserted + duplicated + failed, len(errors) = failed,
\* len(duplicates) = duplicated, len(inserted_details) = inserted (the counts
\* are the lengths of the lists while the loop runs, too); and no id is
\* selected by both the product deriver and the branch deriver of one run.
C22_OutcomesPartition ==
    /\ ProdReturned => Partitioned(hres, where_producto(store, ids_in))
    /\ SucReturned => Partitioned(sres, where_sucursal(store, ids_in))
    /\ (hres # NONE /\ NoGeneral(hres)) => CountsAreLengths(hres)
    /\ (sres # NONE /\ NoGeneral(sres)) => CountsAreLengths(sres)
    /\ where_producto(store, ids_in) \cap where_sucursal(store, ids_in) = {}
    /\ pc = "suc_loop" =>
          \A p \in 1..Len(sel) : Outcomes(hres, sel[p].RECHAZOID) = 0

\* one run in which the product deriver selected one record, a duplicate,
\* and the branch deriver selected the two others: one inserted, the other
\* a duplicate of it
C22_Witness ==
    /\ ProdReturned /\ SucReturned
    /\ hres.total = 1 /\ hres.duplicated = 1
    /\ sres.total = 2 /\ sres.inserted = 1 /\ sres.duplicated = 1
    /\ Len(sres.duplicates) = 1

----------------------------------------------------------------------------
(* Properties of the validator *)

\* the id column of the frame, when the frame has one
IdCells ==
    file.data[CHOOSE p \in 1..Len(file.columns) :
                 file.columns[p] \in {spelled(1, FALSE), spelled(1, TRUE)}]

\* C9: when a required column is absent, the result is invalid with exactly
\* one error, which names exactly the absent required columns; no id check
\* and no no-data check adds an error.
C9_MissingColumns ==
    (vres # NONE /\ file.present # {1, 2, 3, 4}) =>
        /\ vres.valid = FALSE
        /\ Len(vres.errors) = 1
        /\ vres.errors[1].kind = "missing"
        /\ NoDup(vres.errors[1].columns)
        /\ Range(vres.errors[1].columns) =
              {REQUIRED_COLUMNS[r] : r \in {1, 2, 3, 4} \ file.present}

\* a file in capitals that lacks the case-owner and the value columns and
\* whose id column has missing, duplicated and non-numeric cells
C9_Witness ==
    /\ vres # NONE
    /\ file.present = {1, 2}
    /\ \E p \in 1..Len(file.columns) : file.columns[p] = <<" ", "I", "D", "R", " ">>
    /\ null_count(IdCells) = 2
    /\ vres.errors = <<[kind |-> "missing",
                        columns |-> <<RESPONSABLE_DE_CASO, VALOR_HOMOLOGACION>>]>>

\* the ids that occur more than once in the id column
DuplicatedIds ==
    {v \in Range(IdCells) \ {NULL} :
        Cardinality({p \in 1..Len(IdCells) : IdCells[p] = v}) > 1}

\* C10: when the id column has duplicate values, the error gives the number
\* of duplicated cells and lists min(10, n) of the n distinct duplicated ids,
\* with the ellipsis exactly when n > 10, also with missing cells in the column.
C10_DuplicateReport ==
    (vres # NONE /\ file.present = {1, 2, 3, 4} /\ DuplicatedIds # {}) =>
        \E p \in 1..Len(vres.errors) :
            LET e == vres.errors[p]
                n == Cardinality(DuplicatedIds)
            IN /\ e.kind = "duplicates"
               /\ e.count = Cardinality({a \in 1..Len(IdCells) :
                                /\ IdCells[a] # NULL
                                /\ \E b \in 1..(a - 1) : IdCells[b] = IdCells[a]})
               /\ NoDup(e.listed)
               /\ Range(e.listed) \subseteq DuplicatedIds
               /\ Len(e.listed) = (IF n < DUP_LISTED THEN n ELSE DUP_LISTED)
               /\ e.ellipsis = (n > DUP_LISTED)

----------------------------------------------------------------------------
(* Properties of main *)

\* the run of main on the accepted one-row file for RECHAZOID 1 is over
MainOver == pc \notin {"main", "validate"}

\* C4: a one-row file that sets case Homologacion Producto, owner Gobierno de
\* Datos and a value on an existing PROPSTID record of module Sellout with the
\* product reason, without siblings and without a row of its key in
\* PRO_SO_HOMOLOGACION, ends with updated = 1, failed = 0, and the product
\* deriver returns inserted = 1, duplicated = 0, failed = 0, and exactly one row
\* with the key of the record is in PRO_SO_HOMOLOGACION.
C4_EndToEnd ==
    ( /\ MainOver
      /\ extension_ok(file.name)
      /\ file.frame = OneRow(<<"1">>, HOMOLOGACION_PRODUCTO, GOBIERNO_DE_DATOS, VALOR_1)
      /\ store = [j \in {1} |-> ProductoSellout] ) =>
        /\ results # NONE /\ results.updated = 1 /\ results.failed = 0
        /\ hres # NONE
        /\ hres.inserted = 1 /\ hres.duplicated = 0 /\ hres.failed = 0
        /\ Cardinality({p \in 1..Len(prod) :
                           ProdKey(prod[p]) = RecProdKey([PAISID |-> 1, COD_PROD |-> COD_X, GRPID |-> 2])}) = 1

----------------------------------------------------------------------------
(* Properties of the transformation *)

\* C11: on a validated input, transform_for_database applied to its own
\* output returns the same rows with the same id, case, case owner and value
\* (a field that is null stays null); only the two timestamps may differ.
C11_Idempotent ==
    (pc = "retransformed" /\ vres.valid) =>
        /\ len(df) = len(file)
        /\ \A name \in {DB_RECHAZOID, DB_CASO, DB_RESPONSABLE_DE_CASO,
                        DB_VALOR_HOMOLOGACION} :
              /\ in_columns(df, name) /\ in_columns(file, name)
              /\ column(df, name) = column(file, name)

\* the positions of the rows of the file whose id is a number
Coercible ==
    LET ids == file.data[first_match(file.columns, IDRECHAZO)]
    IN SelectSeq([p \in 1..Len(ids) |-> p],
                 LAMBDA p : ids[p] # NAN /\ numeric(ids[p]))

\* C12: the output holds no row with a null id: the rows of the input whose
\* id is missing or no number are dropped, all others are kept in their order.
C12_NullIdsDropped ==
    pc = "transformed" =>
        LET ids == file.data[first_match(file.columns, IDRECHAZO)]
            valor == file.data[first_match(file.columns, VALOR_HOMOLOGACION)]
        IN /\ len(df) = Len(Coercible)
           /\ \A q \in 1..len(df) :
                 /\ column(df, DB_RECHAZOID)[q] # NULLN
                 /\ column(df, DB_RECHAZOID)[q]
                       = (IF ids[Coercible[q]] = <<"1">> THEN 1 ELSE 7)
                 /\ valor[Coercible[q]] = <<"v">>
                       <=> column(df, DB_VALOR_HOMOLOGACION)[q] = <<"v">>
                 /\ column(df, DB_UPDATE_AT)[q] = NOW_1.update_at

\* of two rows the first, without an id, was dropped and the second, with
\* the id 07 and no value, was kept
C12_Witness ==
    /\ pc = "transformed"
    /\ len(file) = 2 /\ len(df) = 1
    /\ file.data[first_match(file.columns, IDRECHAZO)] = <<NAN, <<"0", "7">> >>
    /\ column(df, DB_RECHAZOID) = <<7>>
    /\ column(df, DB_VALOR_HOMOLOGACION) = <<NULL>>
    /\ column(df, DB_CASO) = << <<"c">> >>

====
